---- MODULE Spec2Model ----
(***************************************************************************)
(* A model of the statistical alignment engine of codex-editor:            *)
(*   JsonDatabase              src/servers/utils/json_database.py          *)
(*   ImprovedStatisticalGlosser                                            *)
(*                  src/servers/utils/improved_statistical_glosser.py      *)
(*   BidirectionalInverseAttention, MarkovChain                            *)
(*                             src/servers/utils/bia.py                    *)
(*   SocketRouter              src/servers/socket_functions.py             *)
(*                                                                         *)
(* A text is a sequence of words (the words a \w+ scan of the string       *)
(* finds); a passage reference is a sequence of characters.  A Python dict *)
(* is a function whose DOMAIN is the set of keys present.                  *)
(***************************************************************************)
EXTENDS Integers, Sequences, FiniteSets, TLC

VARIABLES
    database,   \* SocketRouter.database: the JsonDatabase object
    ready,      \* SocketRouter.ready
    status,     \* what the last create_database call returned (or that it raised)
    result,     \* the last answer of a JsonDatabase query
    glosser,    \* a stand-alone ImprovedStatisticalGlosser
    gresult,    \* the last answer of a glosser operation on it
    trained,    \* the corpora train was called with on it, in order
    reads,      \* the number of read operations made on it
    pc,         \* position of the thread running SocketRouter.prepare
    locals,     \* local variables of the running create_database call
    observed,   \* what the last concurrently handled query saw of the database
    bia,        \* SocketRouter.bia: the BidirectionalInverseAttention object
    bresult,    \* the last answer of an operation on it
    data_cache, \* SocketRouter.data_cache, each entry with its hash in data_hashes
    clock       \* what time.time() returns, in seconds

vars == <<database, ready, status, result, glosser, gresult, trained, reads,
          pc, locals, observed, bia, bresult, data_cache, clock>>

----------------------------------------------------------------------------
(* Bounds of the model *)

MaxRecords == 2     \* records per ingested collection
MaxTopN == 2        \* largest top_n asked of search
MaxSamples == 2     \* largest n_samples asked of get_lad

(* Program constants *)

MinTextLen == 4     \* a target text shorter than this opens no table slot
LadTopN == 100      \* get_lad searches with top_n=100

----------------------------------------------------------------------------
(* Generic helpers *)

EmptyMap == [k \in {} |-> 0]

\* A function written [x \in S |-> e] is evaluated by TLC at each application;
\* these give the same sequence or function with its values computed once.
AsSeq(s) == s \o <<>>
AsMap(f) == f @@ EmptyMap

Get(f, k, default) == IF k \in DOMAIN f THEN f[k] ELSE default

\* dict.update / item assignment
Update(f, g) ==
    AsMap([k \in DOMAIN f \cup DOMAIN g |-> IF k \in DOMAIN g THEN g[k] ELSE f[k]])

SeqsUpTo(S, n) == UNION {[1..k -> S] : k \in 0..n}

Min(a, b) == IF a <= b THEN a ELSE b

Take(s, n) == SubSeq(s, 1, Min(n, Len(s)))

Reverse(s) == AsSeq([i \in 1..Len(s) |-> s[Len(s) + 1 - i]])

Range(s) == {s[i] : i \in 1..Len(s)}

\* the elements of s that satisfy keep, in order
RECURSIVE Filter(_, _)
Filter(s, keep) ==
    IF s = <<>> THEN <<>>
    ELSE (IF Head(s) \in keep THEN <<Head(s)>> ELSE <<>>) \o Filter(Tail(s), keep)

\* Body applied to the value of e, e computed once
Bind(e, Body(_)) == CHOOSE y \in {Body(x) : x \in {e}} : TRUE

RECURSIVE SetSum(_, _)
SetSum(f, S) ==
    IF S = {} THEN 0
    ELSE LET x == CHOOSE y \in S : TRUE IN f[x] + SetSum(f, S \ {x})

RECURSIVE Flatten(_)
Flatten(ss) == IF ss = <<>> THEN <<>> ELSE Head(ss) \o Flatten(Tail(ss))

Count(s, x) == Cardinality({i \in 1..Len(s) : s[i] = x})

----------------------------------------------------------------------------
(* Words, texts, references *)

Words == {"a", "in", "God", "god", "made", "word"}

\* str.lower()
Lower(w) == CASE w = "God" -> "god" [] w = "The" -> "the" [] OTHER -> w

\* len(text) of the string the words were scanned from (single spaces between)
RECURSIVE TextLen(_)
TextLen(text) ==
    IF text = <<>> THEN 0
    ELSE IF Len(text) = 1 THEN Len(text[1])
    ELSE Len(Head(text)) + 1 + TextLen(Tail(text))

R1 == <<"G", "1">>
R2 == <<"G", "2">>
R3 == <<"E", "1">>
Refs == {R1, R2, R3}

Verse(r, t, u) == [ref |-> r, text |-> t, uri |-> u]

\* what extract_codex_chunks can return: the last verse of a cell may be short
TargetPool ==
    { Verse(R1, <<"god", "made">>, "x.codex"),
      Verse(R1, <<"in", "word">>, "x.codex"),
      Verse(R2, <<"a">>, "x.codex"),
      Verse(R3, <<"God", "word">>, "y.codex") }

\* what extract_from_bible_file can return: texts of at least 4 characters
SourcePool ==
    { Verse(R1, <<"made", "word">>, "s.bible"),
      Verse(R2, <<"in", "god">>, "s.bible"),
      Verse(R2, <<"a", "a", "a">>, "s.bible") }

Queries == { <<"god">>, <<"word", "in">>, <<"a">> }

----------------------------------------------------------------------------
(* sklearn's TfidfVectorizer and cosine_similarity, as json_database.py    *)
(* uses them (default parameters): tokens are the lower-cased words of two *)
(* or more characters, idf = ln((1+n)/(1+df)) + 1, rows are L2-normalised. *)
(* The idf is kept in quarter units and the cosine as 1000 * cos^2, which  *)
(* orders the rows as the cosine does.                                     *)

TfidfTokens(text) ==
    LET keep == {i \in 1..Len(text) : Len(text[i]) >= 2}
        F[i \in 0..Len(text)] ==
            IF i = 0 THEN <<>>
            ELSE IF i \in keep THEN Append(F[i - 1], Lower(text[i])) ELSE F[i - 1]
    IN F[Len(text)]

Vocabulary(texts) == UNION {Range(TfidfTokens(texts[i])) : i \in 1..Len(texts)}

\* fit_transform raises ValueError ("empty vocabulary") on such a corpus
FitFails(texts) == Vocabulary(texts) = {}

DocFreq(texts, t) == Cardinality({i \in 1..Len(texts) : t \in Range(TfidfTokens(texts[i]))})

\* round(4 * (ln((1+n)/(1+df)) + 1))
IdfQ(n, df) ==
    CASE n = df -> 4
      [] n = 2 /\ df = 1 -> 6
      [] n = 3 /\ df = 1 -> 7
      [] n = 3 /\ df = 2 -> 5
      [] n = 4 /\ df = 1 -> 8
      [] n = 4 /\ df = 2 -> 6
      [] n = 4 /\ df = 3 -> 5
      [] n = 5 /\ df = 1 -> 8
      [] n = 5 /\ df = 2 -> 7
      [] n = 5 /\ df = 3 -> 6
      [] n = 5 /\ df = 4 -> 5
      [] OTHER -> 4

\* vectorizer.transform([text]) against the vocabulary fitted on texts
TfidfVector(texts, text) ==
    AsMap([t \in Vocabulary(texts) |->
             Count(TfidfTokens(text), t) * IdfQ(Len(texts), DocFreq(texts, t))])

Dot(u, v) == SetSum(AsMap([t \in DOMAIN u |-> u[t] * v[t]]), DOMAIN u)

\* cosine_similarity(query_vector, matrix)[0][i - 1], as 1000 * cos^2
CosineSimilarity(texts, query, i) ==
    LET q == TfidfVector(texts, query)
        d == TfidfVector(texts, texts[i])
    IN  IF Dot(q, q) = 0 \/ Dot(d, d) = 0 THEN 0
        ELSE (1000 * Dot(q, d) * Dot(q, d)) \div (Dot(q, q) * Dot(d, d))

\* numpy argsort of the similarity row (ascending; equal values keep index order)
ArgSort(sims) ==
    LET n == Len(sims)
        rank(i) == 1 + Cardinality({j \in 1..n :
                        sims[j] < sims[i] \/ (sims[j] = sims[i] /\ j < i)})
    IN  AsSeq([p \in 1..n |-> CHOOSE i \in 1..n : rank(i) = p])

\* similarities.argsort()[0][-top_n:][::-1]; note that s[-0:] is the whole of s
TopIndices(sims, top_n) ==
    LET order == ArgSort(sims)
        n == Len(order)
        last == IF top_n = 0 \/ top_n >= n THEN order
                ELSE SubSeq(order, n - top_n + 1, n)
    IN  Reverse(last)

----------------------------------------------------------------------------
(* difflib.SequenceMatcher(None, first, second).ratio(), for strings too   *)
(* short for the autojunk heuristic (under 200 characters)                 *)

\* find_longest_match: the longest block a[i..i+k-1] = b[j..j+k-1] inside
\* a[alo..ahi-1], b[blo..bhi-1]; of the longest the one starting earliest in a,
\* then earliest in b.  <<i, j, 0>> when there is none.
FindLongestMatch(a, alo, ahi, b, blo, bhi) ==
    LET blocks == {m \in (alo..(ahi - 1)) \X (blo..(bhi - 1)) \X (1..(ahi - alo)) :
                      /\ m[1] + m[3] <= ahi
                      /\ m[2] + m[3] <= bhi
                      /\ \A d \in 0..(m[3] - 1) : a[m[1] + d] = b[m[2] + d]}
        better(m, o) == \/ m[3] > o[3]
                        \/ m[3] = o[3] /\ m[1] < o[1]
                        \/ m[3] = o[3] /\ m[1] = o[1] /\ m[2] <= o[2]
    IN  IF blocks = {} THEN <<alo, blo, 0>>
        ELSE CHOOSE m \in blocks : \A o \in blocks : better(m, o)

\* the sum of the sizes of get_matching_blocks()
RECURSIVE MatchingChars(_, _, _, _, _, _)
MatchingChars(a, alo, ahi, b, blo, bhi) ==
    LET m == FindLongestMatch(a, alo, ahi, b, blo, bhi)
    IN  IF m[3] = 0 THEN 0
        ELSE m[3] + MatchingChars(a, alo, m[1], b, blo, m[2])
                  + MatchingChars(a, m[1] + m[3], ahi, b, m[2] + m[3], bhi)

\* ratio() * 100: 2.0 * matches / length, and 1.0 when both strings are empty
Ratio100(a, b) ==
    IF Len(a) + Len(b) = 0 THEN 100
    ELSE (200 * MatchingChars(a, 1, Len(a) + 1, b, 1, Len(b) + 1)) \div (Len(a) + Len(b))

\* similarity(first, second): int(score)
similarity(first, second) == Ratio100(first, second)

----------------------------------------------------------------------------
(* ImprovedStatisticalGlosser.  source_counts, target_counts and           *)
(* known_glosses are dicts whose iteration order the code observes: they   *)
(* are sequences of <<key, value>> in insertion order.  The four           *)
(* defaultdicts create a key when it is read.  Scores are in millionths.   *)

MaxStopWords == 75      \* calculate_stop_words(max_stop_words=75)
KnownScore == 1000000   \* the score 1.0 of a known gloss

DKeys(d) == AsSeq([i \in 1..Len(d) |-> d[i][1]])
DHas(d, k) == \E i \in 1..Len(d) : d[i][1] = k
DGet(d, k) == IF DHas(d, k) THEN d[CHOOSE i \in 1..Len(d) : d[i][1] = k][2] ELSE 0
\* d[k] += n on a defaultdict(int); with n = 0 the effect of reading d[k]
DInc(d, k, n) ==
    IF DHas(d, k)
    THEN AsSeq([i \in 1..Len(d) |-> IF d[i][1] = k THEN <<k, d[i][2] + n>> ELSE d[i]])
    ELSE Append(d, <<k, n>>)

RECURSIVE DIncEach(_, _)
DIncEach(d, tokens) ==
    IF tokens = <<>> THEN d ELSE DIncEach(DInc(d, Head(tokens), 1), Tail(tokens))

\* ImprovedStatisticalGlosser.__init__
NewGlosser ==
    [ co_occurrences |-> EmptyMap,
      source_counts |-> <<>>, target_counts |-> <<>>,
      source_doc_freq |-> EmptyMap, target_doc_freq |-> EmptyMap,
      total_docs |-> 0,
      stop_words |-> {},
      known_glosses |-> <<>> ]

\* tokenize_raw: re.findall(r'\w+', sentence.lower())
tokenize_raw(sentence) == AsSeq([i \in 1..Len(sentence) |-> Lower(sentence[i])])

\* tokenize
tokenize(g, sentence) ==
    LET tokens == tokenize_raw(sentence)
        F[i \in 0..Len(tokens)] ==
            IF i = 0 THEN <<>>
            ELSE IF tokens[i] \notin g.stop_words THEN Append(F[i - 1], tokens[i])
            ELSE F[i - 1]
    IN  F[Len(tokens)]

WordCounts(sentences) ==
    LET all == Flatten([i \in 1..Len(sentences) |-> tokenize_raw(sentences[i])])
    IN  AsMap([w \in Range(all) |-> Count(all, w)])

\* the subsets of S with k elements
RECURSIVE KSubsets(_, _)
KSubsets(S, k) ==
    IF k = 0 THEN {{}}
    ELSE IF k = Cardinality(S) THEN {S}
    ELSE IF k > Cardinality(S) THEN {}
    ELSE LET x == CHOOSE y \in S : TRUE
         IN  KSubsets(S \ {x}, k) \cup {X \cup {x} : X \in KSubsets(S \ {x}, k - 1)}

\* calculate_stop_words: the sets self.stop_words can become.  The words counted
\* in more than 10% of the number of sentences, and of those the max_stop_words
\* with the highest counts; words of equal count at the cut are taken in the
\* iteration order of a Python set, which is any order.
calculate_stop_words(sentences, max_stop_words) ==
    LET word_counts == WordCounts(sentences)
        stop_words == {w \in DOMAIN word_counts : 10 * word_counts[w] > Len(sentences)}
        atLeast(c) == {w \in stop_words : word_counts[w] >= c}
    IN  IF Cardinality(stop_words) <= max_stop_words THEN {stop_words}
        ELSE LET cut == CHOOSE c \in {word_counts[w] : w \in stop_words} :
                            /\ Cardinality(atLeast(c)) >= max_stop_words
                            /\ Cardinality(atLeast(c + 1)) < max_stop_words
                 sure == atLeast(cut + 1)
                 tied == atLeast(cut) \ sure
             IN  {sure \cup X : X \in KSubsets(tied, max_stop_words - Cardinality(sure))}

\* one iteration of the loop of train over zip(source_sentences, target_sentences)
TrainPair(g, source, target) ==
    LET source_tokens == tokenize(g, source)
        target_tokens == tokenize(g, target)
        source_set == Range(source_tokens)
        target_set == Range(target_tokens)
        AddOne(f, S) ==
            AsMap([k \in DOMAIN f \cup S |-> Get(f, k, 0) + (IF k \in S THEN 1 ELSE 0)])
    IN  [g EXCEPT
          !.co_occurrences =
              AsMap([p \in DOMAIN g.co_occurrences \cup (source_set \X target_set) |->
                        Get(g.co_occurrences, p, 0)
                          + Count(source_tokens, p[1]) * Count(target_tokens, p[2])]),
          !.source_counts = DIncEach(g.source_counts, source_tokens),
          !.target_counts = DIncEach(g.target_counts, target_tokens),
          !.source_doc_freq = AddOne(g.source_doc_freq, source_set),
          !.target_doc_freq = AddOne(g.target_doc_freq, target_set)]

RECURSIVE TrainPairs(_, _, _, _)
TrainPairs(g, source_sentences, target_sentences, k) ==
    IF k > Min(Len(source_sentences), Len(target_sentences)) THEN g
    ELSE TrainPairs(TrainPair(g, source_sentences[k], target_sentences[k]),
                    source_sentences, target_sentences, k + 1)

\* train, for each set calculate_stop_words can leave in self.stop_words
train(g, source_sentences, target_sentences) ==
    { TrainPairs([g EXCEPT !.stop_words = sw, !.total_docs = Len(source_sentences)],
                 source_sentences, target_sentences, 1) :
        sw \in calculate_stop_words(source_sentences \o target_sentences, MaxStopWords) }

\* the given entries put into the table that is there (dict.update)
add_known_glosses_merged(g, known_glosses) ==
    [g EXCEPT !.known_glosses =
        SelectSeq(g.known_glosses, LAMBDA e : ~DHas(known_glosses, e[1])) \o known_glosses]

\* add_known_glosses
add_known_glosses(g, known_glosses) == [g EXCEPT !.known_glosses = known_glosses]

\* get_count_for_word: reading a defaultdict creates the key
get_count_for_word(g, word, is_source) ==
    IF is_source
    THEN [raised |-> FALSE, value |-> DGet(g.source_counts, word),
          g |-> [g EXCEPT !.source_counts = DInc(g.source_counts, word, 0)]]
    ELSE [raised |-> FALSE, value |-> DGet(g.target_counts, word),
          g |-> [g EXCEPT !.target_counts = DInc(g.target_counts, word, 0)]]

\* round(1000 * ln(k))
LnMilli(k) ==
    CASE k = 1 -> 0 [] k = 2 -> 693 [] k = 3 -> 1099 [] k = 4 -> 1386
      [] k = 5 -> 1609 [] k = 6 -> 1792 [] k = 7 -> 1946 [] k = 8 -> 2079
      [] k = 9 -> 2197 [] k = 10 -> 2303 [] k = 11 -> 2398 [] k = 12 -> 2485
      [] OTHER -> 2565

\* 1000 * math.log(n / d)
LogMilli(n, d) == LnMilli(n) - LnMilli(d)

Abs(x) == IF x < 0 THEN 0 - x ELSE x

\* calculate_score; math.log raises ValueError when total_docs is 0
calculate_score(g, source_token, target_token, source_pos, target_pos, source_len, target_len) ==
    LET co_occur == Get(g.co_occurrences, <<source_token, target_token>>, 0)
        g1 == [g EXCEPT !.co_occurrences =
                  Update(g.co_occurrences,
                         [p \in {<<source_token, target_token>>} |-> co_occur])]
        source_count == DGet(g.source_counts, source_token)
        target_count == DGet(g.target_counts, target_token)
        g2 == [g1 EXCEPT
                 !.source_counts = DInc(g1.source_counts, source_token, 0),
                 !.target_counts = DInc(g1.target_counts, target_token, 0)]
        source_df == Get(g.source_doc_freq, source_token, 0)
        target_df == Get(g.target_doc_freq, target_token, 0)
        g3 == [g2 EXCEPT
                 !.source_doc_freq = Update(g2.source_doc_freq,
                                            [k \in {source_token} |-> source_df])]
        g4 == [g3 EXCEPT
                 !.target_doc_freq = Update(g3.target_doc_freq,
                                            [k \in {target_token} |-> target_df])]
        source_idf == LogMilli(g.total_docs, source_df + 1)
        target_idf == LogMilli(g.total_docs, target_df + 1)
        position == source_len * target_len
                      - Abs(source_pos * target_len - target_pos * source_len)
    IN  IF co_occur = 0 THEN [raised |-> FALSE, value |-> 0, g |-> g1]
        ELSE IF g.total_docs = 0 THEN [raised |-> TRUE, value |-> 0, g |-> g3]
        ELSE IF source_count = 0 \/ target_count = 0
             THEN [raised |-> TRUE, value |-> 0, g |-> g4]
        ELSE [raised |-> FALSE,
              value |-> (co_occur * co_occur * source_idf * target_idf * position)
                           \div (source_count * target_count * source_len * target_len),
              g |-> g4]

\* the pairs left in the order they were appended in
KeepOrder(pairs) == pairs

\* sorted(pairs, key=lambda x: x[1], reverse=True): stable, highest score first
SortByScore(pairs) ==
    LET n == Len(pairs)
        rank(i) == 1 + Cardinality({j \in 1..n :
                        pairs[j][2] > pairs[i][2] \/ (pairs[j][2] = pairs[i][2] /\ j < i)})
    IN  AsSeq([p \in 1..n |-> pairs[CHOOSE i \in 1..n : rank(i) = p]])

\* a loop that scores items in order and keeps <<item.out, score>> when score > 0
RECURSIVE ScoreLoop(_, _, _)
ScoreLoop(g, items, acc) ==
    IF items = <<>> THEN [raised |-> FALSE, value |-> acc, g |-> g]
    ELSE LET it == Head(items)
         IN  Bind(calculate_score(g, it.s, it.t, it.sp, it.tp, it.sl, it.tl),
                  LAMBDA r :
                    IF r.raised THEN [raised |-> TRUE, value |-> <<>>, g |-> r.g]
                    ELSE ScoreLoop(r.g, Tail(items),
                                   IF r.value > 0 THEN Append(acc, <<it.out, r.value>>)
                                   ELSE acc))

Item(s, t, sp, tp, sl, tl, out) ==
    [s |-> s, t |-> t, sp |-> sp, tp |-> tp, sl |-> sl, tl |-> tl, out |-> out]

\* the words of seq that are not stop words, in order
NonStop(g, seq) ==
    LET F[i \in 0..Len(seq)] ==
            IF i = 0 THEN <<>>
            ELSE IF seq[i] \notin g.stop_words THEN Append(F[i - 1], seq[i]) ELSE F[i - 1]
    IN  F[Len(seq)]

\* predict_gloss_for_source_word without the lookup of the known glosses
predict_gloss_for_source_word_scored(g, source_word, top_n) ==
    IF source_word \in g.stop_words THEN [raised |-> FALSE, value |-> <<>>, g |-> g]
    ELSE LET targets == NonStop(g, DKeys(g.target_counts))
         IN  Bind(ScoreLoop(g, AsSeq([i \in 1..Len(targets) |->
                                Item(source_word, targets[i], 0, 0, 1, 1, targets[i])]), <<>>),
                  LAMBDA r : [raised |-> r.raised,
                              value |-> Take(SortByScore(r.value), top_n), g |-> r.g])

\* predict_gloss_for_source_word
predict_gloss_for_source_word(g, source_word, top_n) ==
    IF source_word \in g.stop_words THEN [raised |-> FALSE, value |-> <<>>, g |-> g]
    ELSE IF DHas(g.known_glosses, source_word)
    THEN LET known == DGet(g.known_glosses, source_word)
         IN  [raised |-> FALSE,
              value |-> Take(AsSeq([i \in 1..Len(known) |-> <<known[i], KnownScore>>]),
                             top_n),
              g |-> g]
    ELSE LET targets == NonStop(g, DKeys(g.target_counts))
         IN  Bind(ScoreLoop(g, AsSeq([i \in 1..Len(targets) |->
                                Item(source_word, targets[i], 0, 0, 1, 1, targets[i])]), <<>>),
                  LAMBDA r : [raised |-> r.raised,
                              value |-> Take(SortByScore(r.value), top_n), g |-> r.g])

\* predict_gloss_for_target_word
predict_gloss_for_target_word(g, target_word, top_n) ==
    IF target_word \in g.stop_words THEN [raised |-> FALSE, value |-> <<>>, g |-> g]
    ELSE IF \E i \in 1..Len(g.known_glosses) : target_word \in Range(g.known_glosses[i][2])
    THEN LET first == CHOOSE i \in 1..Len(g.known_glosses) :
                          /\ target_word \in Range(g.known_glosses[i][2])
                          /\ \A j \in 1..(i - 1) : target_word \notin Range(g.known_glosses[j][2])
         IN  [raised |-> FALSE,
              value |-> Take(<< <<g.known_glosses[first][1], KnownScore>> >>, top_n),
              g |-> g]
    ELSE LET sources == NonStop(g, DKeys(g.source_counts))
         IN  Bind(ScoreLoop(g, AsSeq([i \in 1..Len(sources) |->
                                Item(sources[i], target_word, 0, 0, 1, 1, sources[i])]), <<>>),
                  LAMBDA r : [raised |-> r.raised,
                              value |-> Take(SortByScore(r.value), top_n), g |-> r.g])

\* predict_word_glosses
predict_word_glosses(g, word, is_source, top_n) ==
    IF is_source THEN predict_gloss_for_source_word(g, word, top_n)
    ELSE predict_gloss_for_target_word(g, word, top_n)

RECURSIVE SentenceLoop(_, _, _, _, _)
SentenceLoop(g, tokens, is_source, top_n, acc) ==
    IF tokens = <<>> THEN [raised |-> FALSE, value |-> acc, g |-> g]
    ELSE Bind(predict_word_glosses(g, Head(tokens), is_source, top_n),
              LAMBDA r :
                IF r.raised THEN [raised |-> TRUE, value |-> <<>>, g |-> r.g]
                ELSE SentenceLoop(r.g, Tail(tokens), is_source, top_n,
                         Append(acc, AsSeq([i \in 1..Len(r.value) |-> r.value[i][1]]))))

\* predict_sentence_glosses: one list of gloss words per token
predict_sentence_glosses(g, sentence, is_source, top_n) ==
    SentenceLoop(g, tokenize(g, sentence), is_source, top_n, <<>>)

\* generate_wooden_translation
generate_wooden_translation(g, sentence, is_source) ==
    Bind(predict_sentence_glosses(g, tokenize(g, sentence), is_source, 1),
         LAMBDA r : [raised |-> r.raised,
                     value |-> AsSeq([i \in 1..Len(r.value) |->
                                  IF r.value[i] # <<>> THEN r.value[i][1] ELSE "[UNK]"]),
                     g |-> r.g])

\* the body of the loop of gloss for the source token at index i (from 0)
GlossToken(g, source_tokens, target_tokens, i) ==
    LET s_token == source_tokens[i + 1]
        known_targets == IF DHas(g.known_glosses, s_token)
                         THEN DGet(g.known_glosses, s_token) ELSE <<>>
        found == Filter(known_targets, Range(target_tokens))
        token_mappings == AsSeq([k \in 1..Len(found) |-> <<found[k], KnownScore>>])
    IN  IF token_mappings # <<>>
        THEN [raised |-> FALSE, value |-> <<s_token, SortByScore(token_mappings)>>, g |-> g]
        ELSE Bind(ScoreLoop(g, AsSeq([j \in 1..Len(target_tokens) |->
                               Item(s_token, target_tokens[j], i, j - 1, Len(source_tokens),
                                    Len(target_tokens), target_tokens[j])]), <<>>),
                  LAMBDA r : [raised |-> r.raised,
                              value |-> <<s_token, SortByScore(r.value)>>, g |-> r.g])

RECURSIVE GlossLoop(_, _, _, _, _)
GlossLoop(g, source_tokens, target_tokens, i, acc) ==
    IF i >= Len(source_tokens) THEN [raised |-> FALSE, value |-> acc, g |-> g]
    ELSE Bind(GlossToken(g, source_tokens, target_tokens, i),
              LAMBDA r :
                IF r.raised THEN [raised |-> TRUE, value |-> <<>>, g |-> r.g]
                ELSE GlossLoop(r.g, source_tokens, target_tokens, i + 1,
                               Append(acc, r.value)))

\* gloss: a list of (source token, [(target token, score), ...])
gloss(g, source_sentence, target_sentence) ==
    GlossLoop(g, tokenize(g, source_sentence), tokenize(g, target_sentence), 0, <<>>)

----------------------------------------------------------------------------
(* JsonDatabase *)

NoMatrix == [isNone |-> TRUE, rows |-> <<>>]
Matrix(texts) == [isNone |-> FALSE, rows |-> texts]

NotFitted == [fitted |-> FALSE, corpus |-> <<>>]
Fitted(texts) == [fitted |-> TRUE, corpus |-> texts]

NoGlosser == [isNone |-> TRUE, obj |-> NewGlosser]
SomeGlosser(g) == [isNone |-> FALSE, obj |-> g]
NoDictionary == [isNone |-> TRUE, hasEntries |-> FALSE, entries |-> <<>>]

\* JsonDatabase.__init__
NewJsonDatabase ==
    [ isNone |-> FALSE,
      dictionary |-> EmptyMap,
      tfidf_vectorizer_source |-> NotFitted,
      tfidf_vectorizer_target |-> NotFitted,
      tfidf_vectorizer_resources |-> NotFitted,
      tfidf_matrix_source |-> NoMatrix,
      tfidf_matrix_target |-> NoMatrix,
      tfidf_matrix_resources |-> NoMatrix,
      source_texts |-> <<>>, target_texts |-> <<>>, resource_texts |-> <<>>,
      source_references |-> <<>>, target_references |-> <<>>,
      source_uris |-> <<>>, target_uris |-> <<>>, resource_uris |-> <<>>,
      complete_draft |-> <<>>,
      glosser |-> NoGlosser,
      project_dictionary |-> NoDictionary ]

\* SocketRouter.database before the first prepare
NoDatabase == [NewJsonDatabase EXCEPT !.isNone = TRUE]

\* get_text without its lookup in the table
get_text_target_only(db, ref, text_type) ==
    IF text_type = "target" /\ \E i \in 1..Len(db.target_references) : db.target_references[i] = ref
    THEN db.target_texts[CHOOSE i \in 1..Len(db.target_references) :
                            /\ db.target_references[i] = ref
                            /\ \A j \in 1..(i - 1) : db.target_references[j] # ref]
    ELSE <<>>

\* JsonDatabase.get_text; '' is the empty text
get_text(db, ref, text_type) ==
    IF text_type = "target"
    THEN IF \E i \in 1..Len(db.target_references) : db.target_references[i] = ref
         THEN LET index == CHOOSE i \in 1..Len(db.target_references) :
                              /\ db.target_references[i] = ref
                              /\ \A j \in 1..(i - 1) : db.target_references[j] # ref
              IN  db.target_texts[index]
         ELSE <<>>
    ELSE IF ref \in DOMAIN db.dictionary /\ text_type \in DOMAIN db.dictionary[ref]
         THEN db.dictionary[ref][text_type]
         ELSE <<>>

Hit(r, t, u) == [ref |-> r, text |-> t, uri |-> u]

\* the ranked branch of JsonDatabase.search for one collection
RankedHits(vectorizer, matrix, references, texts, uris, query_text, top_n) ==
    LET sims == AsSeq([i \in 1..Len(matrix.rows) |->
                          CosineSimilarity(vectorizer.corpus, query_text, i)])
        top_indices == TopIndices(sims, top_n)
    IN  AsSeq([k \in 1..Len(top_indices) |->
                  Hit(references[top_indices[k]], texts[top_indices[k]], uris[top_indices[k]])])

\* DegradedHits without the [:top_n] slice
DegradedHitsUncut(references, uris, top_n) ==
    AsSeq([i \in 1..Len(references) |-> Hit(references[i], <<>>, uris[i])])

\* the branch of JsonDatabase.search taken when the matrix is None
DegradedHits(references, uris, top_n) ==
    Take(AsSeq([i \in 1..Len(references) |-> Hit(references[i], <<>>, uris[i])]), top_n)

InDictionary(db, hits) ==
    LET keep == {i \in 1..Len(hits) : hits[i].ref \in DOMAIN db.dictionary}
        F[i \in 0..Len(hits)] ==
            IF i = 0 THEN <<>>
            ELSE IF i \in keep THEN Append(F[i - 1], hits[i]) ELSE F[i - 1]
    IN  F[Len(hits)]

\* JsonDatabase.search: {"results": [...]} or {"error": ...}
search(db, query_text, text_type, top_n) ==
    IF text_type = "source"
    THEN IF db.tfidf_matrix_source.isNone
         THEN [error |-> FALSE,
               results |-> Take(InDictionary(db,
                               DegradedHits(db.source_references, db.source_uris,
                                            Len(db.source_references))), top_n)]
         ELSE [error |-> FALSE,
               results |-> InDictionary(db,
                               RankedHits(db.tfidf_vectorizer_source, db.tfidf_matrix_source,
                                          db.source_references, db.source_texts,
                                          db.source_uris, query_text, top_n))]
    ELSE IF text_type = "target"
    THEN IF db.tfidf_matrix_target.isNone
         THEN [error |-> FALSE,
               results |-> DegradedHits(db.target_references, db.target_uris, top_n)]
         ELSE [error |-> FALSE,
               results |-> RankedHits(db.tfidf_vectorizer_target, db.tfidf_matrix_target,
                                      db.target_references, db.target_texts,
                                      db.target_uris, query_text, top_n)]
    ELSE [error |-> TRUE, results |-> <<>>]

RefsOf(hits) == AsSeq([i \in 1..Len(hits) |-> hits[i].ref])

\* JsonDatabase.get_lad
get_lad(db, query, reference, n_samples) ==
    LET target_results == search(db, query, "target", LadTopN)
        source_text == get_text(db, reference, "source")
        source_results == search(db, source_text, "source", LadTopN)
        target_refs == RefsOf(target_results.results)
        source_refs == RefsOf(source_results.results)
        common_refs == Range(target_refs) \cap Range(source_refs)
        ref_string_target == Flatten(Take(Filter(target_refs, common_refs), n_samples))
        ref_string_source == Flatten(Take(Filter(source_refs, common_refs), n_samples))
    IN  IF target_results.error \/ source_results.error THEN 0
        ELSE similarity(ref_string_target, ref_string_source)

----------------------------------------------------------------------------
(* JsonDatabase.create_database, statement by statement.  env is what the  *)
(* file system holds; loc are the local variables of the call.             *)

InitLocals(env) ==
    [ env |-> env, errors |-> <<>>,
      source_bound |-> FALSE, source_files |-> <<>>, target_files |-> <<>> ]

Outcome(db, loc, raised) == [db |-> db, loc |-> loc, raised |-> raised]

AddError(loc, msg) == [loc EXCEPT !.errors = Append(@, msg)]

\* lines 102-108: only the IndexError handler binds source_files
ExtractBible(db, loc) ==
    CASE loc.env.bible = "none" ->
            Outcome(db, [AddError(loc, "No .bible files found") EXCEPT
                            !.source_bound = TRUE, !.source_files = <<>>], FALSE)
      [] loc.env.bible = "error" ->
            Outcome(db, AddError(loc, "Error extracting from bible file"), FALSE)
      [] OTHER ->
            Outcome(db, [loc EXCEPT !.source_bound = TRUE,
                                    !.source_files = loc.env.source_files], FALSE)

\* lines 110-114
ExtractCodex(db, loc) ==
    IF loc.env.codex = "error"
    THEN Outcome(db, [AddError(loc, "Error extracting codex chunks") EXCEPT
                         !.target_files = <<>>], FALSE)
    ELSE Outcome(db, [loc EXCEPT !.target_files = loc.env.target_files], FALSE)

\* lines 116-123
ExtractDictionary(db, loc) ==
    CASE loc.env.dictionary = "missing" ->
            Outcome([db EXCEPT !.project_dictionary = NoDictionary],
                    AddError(loc, "Project dictionary file not found"), FALSE)
      [] loc.env.dictionary = "malformed" ->
            Outcome([db EXCEPT !.project_dictionary = NoDictionary],
                    AddError(loc, "Error extracting project dictionary"), FALSE)
      [] loc.env.dictionary = "noentries" ->
            Outcome([db EXCEPT !.project_dictionary =
                        [isNone |-> FALSE, hasEntries |-> FALSE, entries |-> <<>>]],
                    loc, FALSE)
      [] OTHER ->
            Outcome([db EXCEPT !.project_dictionary =
                        [isNone |-> FALSE, hasEntries |-> TRUE, entries |-> loc.env.entries]],
                    loc, FALSE)

\* lines 125-139
RECURSIVE IngestTarget(_, _)
IngestTarget(db, verses) ==
    IF verses = <<>> THEN db
    ELSE LET verse == Head(verses)
             slot == [target |-> verse.text, target_uri |-> verse.uri]
             appended ==
                 [db EXCEPT
                    !.dictionary = Update(db.dictionary,
                        [r \in {verse.ref} |->
                            IF verse.ref \in DOMAIN db.dictionary
                            THEN Update(db.dictionary[verse.ref], slot) ELSE slot]),
                    !.target_texts = Append(@, verse.text),
                    !.target_references = Append(@, verse.ref),
                    !.target_uris = Append(@, verse.uri),
                    !.complete_draft = @ \o verse.text]
         IN  IF verse.ref \notin DOMAIN db.dictionary /\ TextLen(verse.text) < MinTextLen
             THEN IngestTarget(db, Tail(verses))
             ELSE IngestTarget(appended, Tail(verses))

\* lines 141-151
RECURSIVE IngestSource(_, _)
IngestSource(db, verses) ==
    IF verses = <<>> THEN db
    ELSE LET verse == Head(verses)
             slot == [source |-> verse.text, source_uri |-> verse.uri]
         IN  IngestSource(
                 [db EXCEPT
                    !.dictionary = Update(db.dictionary,
                        [r \in {verse.ref} |->
                            IF verse.ref \in DOMAIN db.dictionary
                            THEN Update(db.dictionary[verse.ref], slot) ELSE slot]),
                    !.source_texts = Append(@, verse.text),
                    !.source_references = Append(@, verse.ref),
                    !.source_uris = Append(@, verse.uri)],
                 Tail(verses))

TargetLoop(db, loc) == Outcome(IngestTarget(db, loc.target_files), loc, FALSE)

\* for verse in source_files: UnboundLocalError when no handler bound the name
SourceLoop(db, loc) ==
    IF ~loc.source_bound THEN Outcome(db, loc, TRUE)
    ELSE Outcome(IngestSource(db, loc.source_files), loc, FALSE)

\* lines 153-157
SaveDraft(db, loc) ==
    IF loc.env.draft = "error"
    THEN Outcome(db, AddError(loc, "Error saving complete draft"), FALSE)
    ELSE Outcome(db, loc, FALSE)

\* lines 159-167
FitSource(db, loc) ==
    IF db.source_texts # <<>>
    THEN IF FitFails(db.source_texts)
         THEN Outcome([db EXCEPT !.tfidf_matrix_source = NoMatrix],
                      AddError(loc, "Error creating TF-IDF matrix for source texts"), FALSE)
         ELSE Outcome([db EXCEPT !.tfidf_vectorizer_source = Fitted(db.source_texts),
                                 !.tfidf_matrix_source = Matrix(db.source_texts)],
                      loc, FALSE)
    ELSE Outcome([db EXCEPT !.tfidf_matrix_source = NoMatrix],
                 AddError(loc, "No source texts available"), FALSE)

\* lines 169-175
FitTarget(db, loc) ==
    IF db.target_texts # <<>>
    THEN IF FitFails(db.target_texts)
         THEN Outcome(db, AddError(loc, "Error creating TF-IDF matrix for target texts"), FALSE)
         ELSE Outcome([db EXCEPT !.tfidf_vectorizer_target = Fitted(db.target_texts),
                                 !.tfidf_matrix_target = Matrix(db.target_texts)],
                      loc, FALSE)
    ELSE Outcome(db, AddError(loc, "No target texts available"), FALSE)

\* load_resources: what it leaves in db, and whether it raised
RECURSIVE ReadResources(_, _)
ReadResources(db, files) ==
    IF files = <<>> THEN [db |-> db, raised |-> FALSE]
    ELSE IF ~Head(files).readable THEN [db |-> db, raised |-> TRUE]
    ELSE ReadResources([db EXCEPT !.resource_texts = Append(@, Head(files).text),
                                  !.resource_uris = Append(@, Head(files).uri)],
                       Tail(files))

load_resources(db, resource_files) ==
    LET r == ReadResources([db EXCEPT !.resource_texts = <<>>, !.resource_uris = <<>>],
                           resource_files)
    IN  IF r.raised THEN r
        ELSE IF r.db.resource_texts # <<>>
        THEN IF FitFails(r.db.resource_texts) THEN [db |-> r.db, raised |-> TRUE]
             ELSE [db |-> [r.db EXCEPT
                             !.tfidf_vectorizer_resources = Fitted(r.db.resource_texts),
                             !.tfidf_matrix_resources = Matrix(r.db.resource_texts)],
                   raised |-> FALSE]
        ELSE [db |-> [r.db EXCEPT !.tfidf_matrix_resources = NoMatrix], raised |-> FALSE]

\* lines 177-180
LoadResources(db, loc) ==
    LET r == load_resources(db, loc.env.resource_files)
    IN  IF r.raised THEN Outcome(r.db, AddError(loc, "Error loading resources"), FALSE)
        ELSE Outcome(r.db, loc, FALSE)

\* the dict comprehension of initialize_glosser (lines 230-234)
RECURSIVE KnownGlossesOf(_, _)
KnownGlossesOf(entries, acc) ==
    IF entries = <<>> THEN acc
    ELSE LET e == Head(entries)
         IN  IF e.translationEquivalents = <<>> THEN KnownGlossesOf(Tail(entries), acc)
             ELSE IF DHas(acc, e.headWord)
             THEN KnownGlossesOf(Tail(entries),
                     AsSeq([i \in 1..Len(acc) |-> IF acc[i][1] = e.headWord
                                                  THEN <<e.headWord, e.translationEquivalents>>
                                                  ELSE acc[i]]))
             ELSE KnownGlossesOf(Tail(entries),
                                 Append(acc, <<e.headWord, e.translationEquivalents>>))

\* initialize_glosser: the databases it can leave, and whether it raised (a
\* dictionary entry without its keys raises KeyError outside any try).  The
\* status it returns is dropped by create_database.
initialize_glosser(db) ==
    LET num_pairs == Min(Len(db.source_texts), Len(db.target_texts))
        pd == db.project_dictionary
    IN  IF num_pairs = 0
        THEN {[db |-> [db EXCEPT !.glosser = SomeGlosser(NewGlosser)], raised |-> FALSE]}
        ELSE { IF ~pd.isNone /\ pd.hasEntries
               THEN IF \E i \in 1..Len(pd.entries) : ~pd.entries[i].wellFormed
                    THEN [db |-> [db EXCEPT !.glosser = SomeGlosser(g)], raised |-> TRUE]
                    ELSE [db |-> [db EXCEPT !.glosser = SomeGlosser(
                                     add_known_glosses(g, KnownGlossesOf(pd.entries, <<>>)))],
                          raised |-> FALSE]
               ELSE [db |-> [db EXCEPT !.glosser = SomeGlosser(g)], raised |-> FALSE]
             : g \in train(NewGlosser, Take(db.source_texts, num_pairs),
                           Take(db.target_texts, num_pairs)) }

\* lines 182-188
InitializeGlosser(db, loc) ==
    { IF r.raised THEN Outcome(r.db, AddError(loc, "Error initializing glosser"), FALSE)
      ELSE Outcome(r.db, loc, FALSE) : r \in initialize_glosser(db) }

\* the k-th statement of create_database: the outcomes it can have
Step(k, db, loc) ==
    CASE k = 1 -> {ExtractBible(db, loc)}
      [] k = 2 -> {ExtractCodex(db, loc)}
      [] k = 3 -> {ExtractDictionary(db, loc)}
      [] k = 4 -> {TargetLoop(db, loc)}
      [] k = 5 -> {SourceLoop(db, loc)}
      [] k = 6 -> {SaveDraft(db, loc)}
      [] k = 7 -> {FitSource(db, loc)}
      [] k = 8 -> {FitTarget(db, loc)}
      [] k = 9 -> {LoadResources(db, loc)}
      [] OTHER -> InitializeGlosser(db, loc)

RECURSIVE RunFrom(_, _, _)
RunFrom(k, db, loc) ==
    IF k > 10 THEN {Outcome(db, loc, FALSE)}
    ELSE UNION { IF o.raised THEN {o} ELSE RunFrom(k + 1, o.db, o.loc) : o \in Step(k, db, loc) }

\* create_database on db: the outcomes (database left, status, raised)
create_database(db, env) == RunFrom(1, db, InitLocals(env))

\* lines 100, 190-194: the status dict returned
StatusOf(o) ==
    [ raised |-> o.raised,
      success |-> ~o.raised /\ o.loc.errors = <<>>,
      errors |-> o.loc.errors ]

----------------------------------------------------------------------------
(* bia.py: MarkovChain and BidirectionalInverseAttention.  A corpus, a     *)
(* query or a text is the sequence of the tokens str.split() finds in it;  *)
(* a sentence of the index is the sequence of its tokens with the          *)
(* punctuation removed.  A Counter is the sequence of its <<key, count>>   *)
(* items in insertion order.                                               *)

MASK == "[MASK]"

DefaultTopN == 15       \* predict's default top_n

\* re.sub(r'[^\w\s]', '', token)
StripPunct(tok) ==
    CASE tok = "sat." -> "sat" [] tok = "mat." -> "mat" [] tok = "rug." -> "rug"
      [] tok = MASK -> "MASK"
      [] OTHER -> tok

\* the token ends in "." or "?": re.split cuts the corpus at the white space
\* after it
EndsSentence(tok) == tok \in {"sat.", "mat.", "rug."}

\* "bound in sentence" for a bound of one word: a substring of a token
IsSubstring(bound, tok) ==
    bound = tok \/ <<bound, tok>> \in {<<"at", "cat">>, <<"at", "mat">>, <<"at", "sat">>}

\* list.index(x), 0-based, of an x that is in the list
IndexOf(s, x) == (CHOOSE i \in 1..Len(s) : s[i] = x /\ \A j \in 1..(i - 1) : s[j] # x) - 1

RECURSIVE SplitSentences(_, _)
SplitSentences(corpus, current) ==
    IF corpus = <<>> THEN (IF current = <<>> THEN <<>> ELSE <<current>>)
    ELSE IF EndsSentence(Head(corpus))
    THEN <<Append(current, StripPunct(Head(corpus)))>> \o SplitSentences(Tail(corpus), <<>>)
    ELSE SplitSentences(Tail(corpus), Append(current, StripPunct(Head(corpus))))

\* lines 100-102: the sentences of the lower-cased corpus
Sentences(corpus) == IF corpus = <<>> THEN << <<>> >> ELSE SplitSentences(corpus, <<>>)

\* MarkovChain.__init__: mapping[w] lists the tokens found right after w,
\* reverse_mapping[w] those found right before it (the first and the last
\* token of the corpus open no entry of it)
NewMarkovChain(corpus) ==
    LET n == Len(corpus)
        after(w) == LET F[i \in 0..(n - 1)] ==
                            IF i = 0 THEN <<>>
                            ELSE IF corpus[i] = w THEN Append(F[i - 1], corpus[i + 1])
                            ELSE F[i - 1]
                    IN  F[n - 1]
        before(w) == LET F[i \in 1..(n - 1)] ==
                            IF i = 1 THEN <<>>
                            ELSE IF corpus[i] = w THEN Append(F[i - 1], corpus[i - 1])
                            ELSE F[i - 1]
                     IN  F[n - 1]
    IN  [ words |-> corpus,
          mapping |-> AsMap([w \in {corpus[i] : i \in 1..(n - 1)} |-> after(w)]),
          reverse_mapping |-> AsMap([w \in {corpus[i] : i \in 2..(n - 1)} |-> before(w)]) ]

can_be_next(chain, last, next_) ==
    IF last \notin DOMAIN chain.mapping THEN TRUE
    ELSE next_ \in Range(chain.mapping[last])

can_preclude(chain, word, next_) ==
    IF next_ \notin DOMAIN chain.reverse_mapping THEN TRUE
    ELSE word \in Range(chain.reverse_mapping[next_])

\* BidirectionalInverseAttention.__init__ on a file holding the corpus
NewBia(corpus) ==
    [ isNone |-> FALSE,
      corpus |-> corpus,
      chain |-> NewMarkovChain(corpus),
      sentences |-> Sentences(corpus),
      vocab |-> Vocabulary(Sentences(corpus)) ]

NoBia == [ isNone |-> TRUE, corpus |-> <<>>, chain |-> NewMarkovChain(<<>>),
           sentences |-> <<>>, vocab |-> {} ]

\* self.idf[self.vocab[w]], in quarter units
Idf(b, w) == IdfQ(Len(b.sentences), DocFreq(b.sentences, w))

\* similarity_scores.nonzero()[0]: the 0-based indices of the sentences that
\* share a vocabulary token with the query, the placeholder taken out of it
RelevantIndices(b, query) ==
    LET q == {StripPunct(query[i]) : i \in {j \in 1..Len(query) : query[j] # MASK}}
        tokens == {Lower(w) : w \in {x \in q : Len(x) >= 2}} \cap b.vocab
    IN  {i \in 0..(Len(b.sentences) - 1) :
            tokens \cap Range(TfidfTokens(b.sentences[i + 1])) # {}}

\* the elements of the set of numbers S in increasing order
RECURSIVE Ascending(_)
Ascending(S) ==
    IF S = {} THEN <<>>
    ELSE LET m == CHOOSE x \in S : \A y \in S : x <= y
         IN  <<m>> \o Ascending(S \ {m})

\* search: rel[0] raises IndexError when no sentence contains the bound
search_bia(b, query, bound) ==
    LET relevant_indices == RelevantIndices(b, query)
        rel == Filter(b.sentences,
                      {s \in Range(b.sentences) :
                          \E k \in 1..Len(s) : IsSubstring(bound, s[k])})
    IN  IF bound # "" /\ rel = <<>> THEN [raised |-> TRUE, value |-> <<>>]
        ELSE LET start == IF bound = "" THEN 0 ELSE IndexOf(b.sentences, rel[1])
                 end == IF bound = "" THEN Cardinality(relevant_indices) - 1
                        ELSE IndexOf(b.sentences, rel[Len(rel)])
                 kept == Ascending({i \in relevant_indices : start < i /\ i < end})
             IN  [ raised |-> FALSE,
                   value |-> AsSeq([k \in 1..Len(kept) |-> b.sentences[kept[k] + 1]]) ]

\* predict_from: a Counter of the words found at the offset from word
predict_from(b, word, distance, bound) ==
    LET found == search_bia(b, <<word>>, bound)
        results == found.value
        F[i \in 0..Len(results)] ==
            IF i = 0 THEN <<>>
            ELSE LET _text == results[i]
                 IN  IF word \notin Range(_text) THEN F[i - 1]
                     ELSE LET cast_index == IndexOf(_text, word) - distance
                          IN  IF 0 <= cast_index /\ cast_index < Len(_text)
                              THEN DInc(F[i - 1], _text[cast_index + 1], 1)
                              ELSE F[i - 1]
    IN  IF found.raised THEN [raised |-> TRUE, value |-> <<>>]
        ELSE [raised |-> FALSE, value |-> F[Len(results)]]

\* sorted(items, key=count, reverse=True): equal counts keep their order
StableSortDesc(items, key(_)) ==
    LET n == Len(items)
        sorted(keys) ==
            LET rank(i) == 1 + Cardinality({j \in 1..n :
                                keys[j] > keys[i] \/ (keys[j] = keys[i] /\ j < i)})
            IN  AsSeq([p \in 1..n |-> items[CHOOSE i \in 1..n : rank(i) = p]])
    IN  Bind(AsSeq([i \in 1..n |-> key(items[i])]), sorted)

\* Counter.most_common()
most_common(counts) == StableSortDesc(counts, LAMBDA item : item[2])

\* combine_counts: one vote for a vocabulary word from each Counter holding it
combine_counts(b, counts_list) ==
    LET words == Flatten(AsSeq([i \in 1..Len(counts_list) |-> DKeys(counts_list[i])]))
        F[i \in 0..Len(words)] ==
            IF i = 0 THEN <<>>
            ELSE IF words[i] \notin b.vocab THEN F[i - 1]
            ELSE DInc(F[i - 1], words[i], 1)
    IN  most_common(F[Len(words)])

\* lines 179-180: the query words of the vocabulary, rarest first, top_n of them
rare_words(b, _text, top_n) ==
    LET inVocab == SelectSeq(_text, LAMBDA w : w \in b.vocab)
    IN  Take(StableSortDesc(inVocab, LAMBDA w : Idf(b, w)), top_n)

\* lines 184-187: the <<word, distance>> of the submitted predict_from calls
SubmittedTasks(b, _text, target, top_n) ==
    LET tasks(rare) ==
            LET submit(k) == _text[k] \in rare \/ IndexOf(_text, _text[k]) - target = 0
                F[k \in 0..Len(_text)] ==
                    IF k = 0 THEN <<>>
                    ELSE IF submit(k)
                    THEN Append(F[k - 1], <<_text[k], IndexOf(_text, _text[k]) - target>>)
                    ELSE F[k - 1]
            IN  F[Len(_text)]
    IN  Bind(Range(rare_words(b, _text, top_n)), tasks)

\* lines 182-188: the Counters of the submitted predict_from calls, in the
\* order of submission
TaskCounts(b, query, top_n, bound) ==
    LET tasks(submitted) ==
            AsSeq([i \in 1..Len(submitted) |->
                     predict_from(b, submitted[i][1], submitted[i][2], bound)])
    IN  Bind(SubmittedTasks(b, query, IndexOf(query, MASK), top_n), tasks)

\* lines 188-191 with the futures completing in the order done (a
\* permutation of the submitted calls): as_completed hands the Counters over
\* in that order, future.result() raises what the call raised
predict_in_order(b, counts, done) ==
    IF \E i \in 1..Len(counts) : counts[i].raised
    THEN [raised |-> TRUE, value |-> <<>>]
    ELSE [ raised |-> FALSE,
           value |-> combine_counts(b, AsSeq([i \in 1..Len(counts) |-> counts[done[i]].value])) ]

\* predict: what it can return; line 176 raises IndexError on a query
\* without placeholder
predict(b, query, top_n, bound) ==
    IF MASK \notin Range(query) THEN {[raised |-> TRUE, value |-> <<>>]}
    ELSE LET outcomes(counts) ==
                {predict_in_order(b, counts, done) : done \in Permutations(1..Len(counts))}
         IN  Bind(TaskCounts(b, query, top_n, bound), outcomes)

\* get_possible_next: _text.split()[-1] raises IndexError on a blank text
get_possible_next(b, _text, options) ==
    IF _text = <<>> THEN {[raised |-> TRUE, value |-> <<>>]}
    ELSE LET last == _text[Len(_text)]
         IN  { IF p.raised THEN p
               ELSE [ raised |-> FALSE,
                      value |-> SelectSeq(Take(DKeys(p.value), options * 4),
                                    LAMBDA option : can_be_next(b.chain, last, option)) ] :
               p \in predict(b, Append(_text, MASK), DefaultTopN, "") }

\* predict_next: predict(_text)[0][0] raises IndexError on an empty list
RECURSIVE predict_next_loop(_, _, _)
predict_next_loop(b, _text, num_words) ==
    IF num_words = 0 THEN {[raised |-> FALSE, value |-> _text]}
    ELSE UNION { IF p.raised \/ p.value = <<>> THEN {[raised |-> TRUE, value |-> <<>>]}
                 ELSE predict_next_loop(b,
                        AsSeq([i \in 1..Len(_text) |->
                                 IF _text[i] = MASK THEN p.value[1][1] ELSE _text[i]])
                            \o <<MASK>>,
                        num_words - 1) :
                 p \in predict(b, _text, DefaultTopN, "") }

predict_next(b, _text, num_words) == predict_next_loop(b, Append(_text, MASK), num_words)

NoBResult == [op |-> "none", args |-> <<>>, raised |-> FALSE, value |-> <<>>]

----------------------------------------------------------------------------
(* SocketRouter.prepare and the queries, one call at a time *)

Env(bible, source_files, codex, target_files, dictionary, entries, draft, resource_files) ==
    [ bible |-> bible, source_files |-> source_files,
      codex |-> codex, target_files |-> target_files,
      dictionary |-> dictionary, entries |-> entries,
      draft |-> draft, resource_files |-> resource_files ]

Entry(h, t, ok) == [headWord |-> h, translationEquivalents |-> t, wellFormed |-> ok]

ProjectEntries == << Entry("made", <<"word">>, TRUE), Entry("in", <<>>, TRUE) >>

SourceLists == SeqsUpTo(SourcePool, MaxRecords)
TargetLists == SeqsUpTo(TargetPool, MaxRecords)

\* the workspaces the queries are checked on: any records; the .bible file is
\* there, missing or unreadable
Envs ==
    {Env("ok", sf, "ok", tf, "ok", ProjectEntries, "ok", <<>>) :
        sf \in SourceLists, tf \in TargetLists}
    \cup {Env(b, <<>>, "ok", tf, "ok", ProjectEntries, "ok", <<>>) :
        b \in {"none", "error"}, tf \in TargetLists}

NoStatus == [returned |-> FALSE, raised |-> FALSE, success |-> FALSE, errors |-> <<>>]
NoResult == [op |-> "none", args |-> <<>>, value |-> <<>>]
NoGResult == [op |-> "none", args |-> <<>>, raised |-> FALSE, value |-> <<>>]
NoEnv == Env("none", <<>>, "ok", <<>>, "missing", <<>>, "ok", <<>>)

Init ==
    /\ database = NoDatabase
    /\ ready = FALSE
    /\ status = NoStatus
    /\ result = NoResult
    /\ glosser = NewGlosser
    /\ gresult = NoGResult
    /\ trained = <<>>
    /\ reads = 0
    /\ pc = 0
    /\ locals = InitLocals(NoEnv)
    /\ observed = NoDatabase
    /\ bia = NoBia
    /\ bresult = NoBResult
    /\ data_cache = EmptyMap
    /\ clock = 0

\* SocketRouter.prepare, run to its end: a new JsonDatabase, create_database on
\* it, ready; an exception of create_database is caught and leaves ready False.
\* LSPWrapper.initialize calls it once, when the workspace is set.
PrepareIn(envs) ==
    /\ database.isNone
    /\ \E env \in envs : \E o \in create_database(NewJsonDatabase, env) :
        /\ database' = o.db
        /\ status' = [returned |-> ~o.raised] @@ StatusOf(o)
        /\ ready' = ~o.raised
        /\ result' = NoResult
        /\ locals' = o.loc
    /\ UNCHANGED <<glosser, gresult, trained, reads, bia, bresult, data_cache, clock, pc, observed>>

Prepare == PrepareIn(Envs)

TextTypes == {"source", "target", "resources"}

Search ==
    /\ ~database.isNone
    /\ result.op = "none"
    /\ \E q \in Queries, text_type \in TextTypes, top_n \in 0..MaxTopN :
        /\ result' = [op |-> "search", args |-> <<q, text_type, top_n>>,
                      value |-> search(database, q, text_type, top_n)]
    /\ UNCHANGED <<database, ready, status, glosser, gresult, trained, reads, bia, bresult, data_cache, clock,
                   pc, locals, observed>>

GetLad ==
    /\ ~database.isNone
    /\ result.op = "none"
    /\ \E q \in Queries, reference \in Refs, n_samples \in 1..MaxSamples :
        /\ result' = [op |-> "get_lad", args |-> <<q, reference, n_samples>>,
                      value |-> get_lad(database, q, reference, n_samples)]
    /\ UNCHANGED <<database, ready, status, glosser, gresult, trained, reads, bia, bresult, data_cache, clock,
                   pc, locals, observed>>

GetText ==
    /\ ~database.isNone
    /\ result.op = "none"
    /\ \E ref \in Refs, text_type \in {"source", "target"} :
        /\ result' = [op |-> "get_text", args |-> <<ref, text_type>>,
                      value |-> get_text(database, ref, text_type)]
    /\ UNCHANGED <<database, ready, status, glosser, gresult, trained, reads, bia, bresult, data_cache, clock,
                   pc, locals, observed>>

\* the caller takes the answer; the next call can be made
Respond ==
    /\ result.op # "none"
    /\ result' = NoResult
    /\ UNCHANGED <<database, ready, status, glosser, gresult, trained, reads, bia, bresult, data_cache, clock,
                   pc, locals, observed>>

Next == Prepare \/ Search \/ GetLad \/ GetText \/ Respond

Spec == Init /\ [][Next]_vars

----------------------------------------------------------------------------
(* prepare on workspaces in which construction steps fail                   *)

Resource(readable, text) == [readable |-> readable, text |-> text, uri |-> "r.txt"]

\* no resource file, a readable one, an unreadable one, one without a token
ResourceChoices ==
    { <<>>, <<Resource(TRUE, <<"god", "word">>)>>, <<Resource(FALSE, <<>>)>>,
      <<Resource(TRUE, <<"a">>)>> }

\* entries of project.dictionary; the last one lacks a key
EntryChoices == { ProjectEntries, <<Entry("made", <<"word">>, FALSE)>> }

BuildSourceLists ==
    { <<>>, <<Verse(R1, <<"made", "word">>, "x.bible")>>,
      <<Verse(R2, <<"a", "a", "a">>, "x.bible")>> }
BuildTargetLists ==
    { <<>>, <<Verse(R1, <<"god", "made">>, "x.codex")>>,
      <<Verse(R1, <<"a", "a", "a">>, "x.codex")>> }

BuildEnvs ==
    { Env(b, IF b = "ok" THEN sf ELSE <<>>, c, IF c = "ok" THEN tf ELSE <<>>,
          d, IF d = "ok" THEN e ELSE <<>>, w, rf) :
        b \in {"ok", "none", "error"}, sf \in BuildSourceLists,
        c \in {"ok", "error"}, tf \in BuildTargetLists,
        d \in {"ok", "missing", "malformed", "noentries"}, e \in EntryChoices,
        w \in {"ok", "error"}, rf \in ResourceChoices }

PrepareBuild == PrepareIn(BuildEnvs)

NextBuild == PrepareBuild \/ GetText \/ Respond

SpecBuild == Init /\ [][NextBuild]_vars

----------------------------------------------------------------------------
(* prepare on workspaces with target records and no source record          *)

\* a target text of four characters or more without a token of two
NoTokenVerse == Verse(R2, <<"a", "a", "a">>, "x.codex")

TargetOnlyLists == SeqsUpTo(TargetPool \cup {NoTokenVerse}, MaxRecords) \ {<<>>}

\* the .bible file holds no verse, or there is no .bible file
TargetOnlyEnvs ==
    {Env(b, <<>>, "ok", tf, "ok", ProjectEntries, "ok", <<>>) :
        b \in {"ok", "none"}, tf \in TargetOnlyLists}

PrepareTargetOnly == PrepareIn(TargetOnlyEnvs)

NextTargetOnly == PrepareTargetOnly \/ Search \/ Respond

SpecTargetOnly == Init /\ [][NextTargetOnly]_vars

----------------------------------------------------------------------------
(* One JsonDatabase object on which create_database and load_resources are *)
(* called again and again (the router builds a new object for each         *)
(* prepare; the class itself allows the calls to be repeated)              *)

MaxKept == 2    \* create_database is called while a list has fewer entries

\* the last verse of a cell can have a text of any length
RebuildSourceLists ==
    { <<>>, <<Verse(R1, <<"made", "word">>, "s.bible")>>,
      <<Verse(R2, <<"a", "a", "a">>, "s.bible")>> }
RebuildTargetLists ==
    { <<>>, <<Verse(R1, <<"god", "made">>, "x.codex")>>, <<Verse(R1, <<"a">>, "x.codex")>>,
      <<Verse(R3, <<"a", "a", "a">>, "y.codex")>> }

RebuildEnvs ==
    { Env(b, IF b = "ok" THEN sf ELSE <<>>, "ok", tf, "ok", ProjectEntries, "ok", <<>>) :
        b \in {"ok", "error"}, sf \in RebuildSourceLists, tf \in RebuildTargetLists }

Sides == {"source", "target", "resources"}

\* JsonDatabase()
Construct ==
    /\ database.isNone
    /\ database' = NewJsonDatabase
    /\ UNCHANGED <<ready, status, result, glosser, gresult, trained, reads, bia, bresult, data_cache, clock,
                   pc, locals, observed>>

\* create_database on the object as it is
CreateDatabaseIn(envs) ==
    /\ ~database.isNone
    /\ result.op = "none"
    /\ \E env \in envs : \E o \in create_database(database, env) :
        /\ database' = o.db
        /\ status' = [returned |-> ~o.raised] @@ StatusOf(o)
        /\ locals' = o.loc
    /\ UNCHANGED <<ready, result, glosser, gresult, trained, reads, bia, bresult, data_cache, clock,
                   pc, observed>>

CreateDatabase ==
    /\ Len(database.source_references) < MaxKept
    /\ Len(database.target_references) < MaxKept
    /\ CreateDatabaseIn(RebuildEnvs)

\* load_resources on the object as it is; what it raises goes to the caller
CallLoadResources ==
    /\ ~database.isNone
    /\ result.op = "none"
    /\ \E resource_files \in ResourceChoices :
        database' = load_resources(database, resource_files).db
    /\ UNCHANGED <<ready, status, result, glosser, gresult, trained, reads, bia, bresult, data_cache, clock,
                   pc, locals, observed>>

GetTextAnySide ==
    /\ ~database.isNone
    /\ result.op = "none"
    /\ \E ref \in Refs, text_type \in Sides :
        /\ result' = [op |-> "get_text", args |-> <<ref, text_type>>,
                      value |-> get_text(database, ref, text_type)]
    /\ UNCHANGED <<database, ready, status, glosser, gresult, trained, reads, bia, bresult, data_cache, clock,
                   pc, locals, observed>>

NextRebuild ==
    Construct \/ CreateDatabase \/ CallLoadResources \/ GetTextAnySide \/ Respond

SpecRebuild == Init /\ [][NextRebuild]_vars

----------------------------------------------------------------------------
(* get_text on a JsonDatabase object: newly constructed, or after its one  *)
(* create_database (as prepare uses the class)                             *)

\* the last verse of a cell can be empty; a reference can come twice
OnceTargetLists ==
    RebuildTargetLists \cup
    { <<Verse(R1, <<>>, "x.codex")>>,
      <<Verse(R1, <<"god", "made">>, "x.codex"), Verse(R1, <<>>, "x.codex")>>,
      <<Verse(R2, <<"a">>, "x.codex"), Verse(R2, <<"in", "word">>, "x.codex"),
        Verse(R2, <<"a">>, "x.codex")>> }

OnceEnvs ==
    { Env(b, IF b = "ok" THEN sf ELSE <<>>, "ok", tf, "ok", ProjectEntries, "ok", <<>>) :
        b \in {"ok", "none", "error"}, sf \in RebuildSourceLists, tf \in OnceTargetLists }

CreateDatabaseOnce ==
    /\ database = NewJsonDatabase
    /\ CreateDatabaseIn(OnceEnvs)

NextGetText == Construct \/ CreateDatabaseOnce \/ GetTextAnySide \/ Respond

SpecGetText == Init /\ [][NextGetText]_vars

----------------------------------------------------------------------------
(* The gloss reads of a prepared router (route_to "predict_word_glosses")  *)

\* JsonDatabase.predict_word_glosses: the dict returned, {"error": message}
\* or {"glosses": list}, and what the call leaves in the database
JsonDatabase_predict_word_glosses(db, word, is_source, top_n) ==
    IF db.glosser.isNone
    THEN [ db |-> db,
           value |-> [error |-> "Glosser has not been initialized", glosses |-> <<>>] ]
    ELSE Bind(predict_word_glosses(db.glosser.obj, word, is_source, top_n),
              LAMBDA r :
                [ db |-> [db EXCEPT !.glosser = SomeGlosser(r.g)],
                  value |-> IF r.raised
                            THEN [error |-> "Error predicting word glosses", glosses |-> <<>>]
                            ELSE [error |-> "", glosses |-> r.value] ])

GlossedWords == {"made", "word", "zebra"}

RoutePredictWordGlosses ==
    /\ ~database.isNone
    /\ result.op = "none"
    /\ \E word \in GlossedWords, is_source \in BOOLEAN, top_n \in 1..MaxTopN :
        \E r \in {JsonDatabase_predict_word_glosses(database, word, is_source, top_n)} :
            /\ database' = r.db
            /\ result' = [ op |-> "predict_word_glosses",
                           args |-> <<word, is_source, top_n>>, value |-> r.value ]
    /\ UNCHANGED <<ready, status, glosser, gresult, trained, reads, bia, bresult, data_cache, clock,
                   pc, locals, observed>>

\* the parameter names of JsonDatabase.get_lad after self, and the default
\* of the last one
GetLadParameters == <<"query", "reference", "n_samples">>
DefaultSamples == 5

\* SocketRouter.verse_lad: self.database.get_lad(query, vref=vref).  A keyword
\* argument that names no parameter of the callee raises TypeError at the call.
verse_lad(db, query, vref) ==
    IF "vref" \notin Range(GetLadParameters) THEN [raised |-> TRUE, value |-> 0]
    ELSE [raised |-> FALSE, value |-> get_lad(db, query, vref, DefaultSamples)]

\* route_to for "verse_lad" (no response is ever cached under its key): the
\* object sent back; an exception ends in the last handler of route_to
route_to_verse_lad(db, query, vref) ==
    Bind(verse_lad(db, query, vref),
         LAMBDA r : IF r.raised THEN [error |-> TRUE, score |-> 0]
                    ELSE [error |-> FALSE, score |-> r.value])

RouteVerseLad ==
    /\ ~database.isNone
    /\ ready
    /\ result.op = "none"
    /\ \E q \in Queries, vref \in Refs :
        result' = [op |-> "verse_lad", args |-> <<q, vref>>,
                   value |-> route_to_verse_lad(database, q, vref)]
    /\ UNCHANGED <<database, ready, status, glosser, gresult, trained, reads, bia, bresult, data_cache, clock,
                   pc, locals, observed>>

NextVerseLad == Prepare \/ RouteVerseLad \/ Respond

SpecVerseLad == Init /\ [][NextVerseLad]_vars

NextGlossReads == Prepare \/ RoutePredictWordGlosses \/ Respond

SpecGlossReads == Init /\ [][NextGlossReads]_vars

----------------------------------------------------------------------------
(* prepare statement by statement, with connections served meanwhile        *)

ConcurrentEnvs ==
    { Env("ok", sf, "ok", tf, "ok", ProjectEntries, "ok", <<>>) :
        sf \in { <<Verse(R1, <<"made", "word">>, "x.bible")>>,
                 <<Verse(R1, <<"made", "word">>, "x.bible"),
                   Verse(R2, <<"in", "god">>, "x.bible")>> },
        tf \in { <<Verse(R1, <<"god", "made">>, "x.codex")>>,
                 <<Verse(R1, <<"god", "made">>, "x.codex"),
                   Verse(R2, <<"God", "word">>, "x.codex")>> } }

Done == 11      \* pc after the last statement of prepare

\* prepare line 49: the new, empty JsonDatabase is what self.database names
BeginPrepare ==
    /\ pc = 0
    /\ \E env \in ConcurrentEnvs :
        /\ database' = NewJsonDatabase
        /\ locals' = InitLocals(env)
    /\ pc' = 1
    /\ UNCHANGED <<ready, status, result, glosser, gresult, trained, reads, bia, bresult, data_cache, clock, observed>>

\* the next statement of create_database, on the database readers can see;
\* after the last one prepare line 58 sets ready
PrepareStep ==
    /\ pc \in 1..10
    /\ \E o \in Step(pc, database, locals) :
        /\ database' = o.db
        /\ locals' = o.loc
        /\ IF o.raised \/ pc = 10
           THEN /\ pc' = Done
                /\ ready' = ~o.raised
                /\ status' = [returned |-> ~o.raised] @@ StatusOf(o)
           ELSE /\ pc' = pc + 1
                /\ UNCHANGED <<ready, status>>
    /\ UNCHANGED <<result, glosser, gresult, trained, reads, bia, bresult, data_cache, clock, observed>>

\* handle_connection on its own thread: route_to uses self.database as it is
RouteTo ==
    /\ \E q \in Queries, text_type \in {"source", "target"} :
        result' = [op |-> "route_to", args |-> <<q, text_type>>,
                   value |-> IF database.isNone THEN [error |-> TRUE, results |-> <<>>]
                             ELSE search(database, q, text_type, 1)]
    /\ observed' = database
    /\ UNCHANGED <<database, ready, status, glosser, gresult, trained, reads, bia, bresult, data_cache, clock, pc, locals>>

NextConcurrent == BeginPrepare \/ PrepareStep \/ RouteTo

SpecConcurrent == Init /\ [][NextConcurrent]_vars

----------------------------------------------------------------------------
(* route_to and its response cache, with prepare running meanwhile         *)

CacheExpiration == 5    \* SocketRouter.cache_expiration, in seconds
MaxClock == 6           \* the clock is followed up to this many seconds

\* f"{function_name}:{json.dumps(args, sort_keys=True)}"
CacheKey(function_name, args) == <<function_name, args>>

\* hashlib.md5(json.dumps(data, sort_keys=True).encode()).hexdigest(): equal
\* for equal data, taken to differ for different data
HashOf(data) == <<"md5", data>>

\* cache_data: the entry of data_cache and the one of data_hashes
cache_data(cache, key, data, now) ==
    Update(cache, [k \in {key} |-> [data |-> data, timestamp |-> now, hash |-> HashOf(data)]])

\* get_cached_data: (data, True) while the entry is younger than cache_expiration
get_cached_data(cache, key, now) ==
    IF key \in DOMAIN cache /\ now - cache[key].timestamp < CacheExpiration
    THEN [data |-> <<cache[key].data>>, is_valid |-> TRUE]
    ELSE [data |-> <<>>, is_valid |-> FALSE]

\* has_data_changed
has_data_changed(cache, key, data) ==
    IF key \notin DOMAIN cache THEN TRUE
    ELSE HashOf(data) # cache[key].hash

\* the dict get_glosser_info returns, or the error object
GlosserInfo(error, num_source_texts, num_target_texts, num_known_glosses) ==
    [ error |-> error, num_source_texts |-> num_source_texts,
      num_target_texts |-> num_target_texts, num_known_glosses |-> num_known_glosses ]

ErrorObject == GlosserInfo(TRUE, 0, 0, 0)

\* JsonDatabase.get_glosser_info: a missing glosser is initialized first
JsonDatabase_get_glosser_info(db) ==
    LET info(d) == GlosserInfo(FALSE, Len(d.source_texts), Len(d.target_texts),
                               Len(d.glosser.obj.known_glosses))
    IN  IF db.glosser.isNone
        THEN { [db |-> r.db, value |-> IF r.raised THEN ErrorObject ELSE info(r.db)] :
                 r \in initialize_glosser(db) }
        ELSE { [db |-> db, value |-> info(db)] }

\* the values of args.get('force_refresh') in the requests
ForceRefreshArgs == {"true", "false"}

\* an answer of route_to: what is sent, and whether it came from the cache
Answer(args, value, cached) ==
    [op |-> "get_glosser_info", args |-> args, value |-> value, cached |-> cached]

\* route_to for "get_glosser_info", lines 96-107 and 175-183; self.database
\* is None until prepare has constructed one (AttributeError, last handler)
RouteGetGlosserInfo ==
    /\ result.op = "none"
    /\ \E force \in ForceRefreshArgs :
        \E key \in {CacheKey("get_glosser_info", force)} :
          \E c \in {get_cached_data(data_cache, key, clock)} :
            IF c.is_valid /\ ~has_data_changed(data_cache, key, c.data[1])
            THEN /\ result' = Answer(<<force>>, c.data[1], TRUE)
                 /\ UNCHANGED <<database, data_cache>>
            ELSE IF force = "true" \/ ~c.is_valid
                       \/ has_data_changed(data_cache, key, c.data[1])
            THEN IF database.isNone
                 THEN /\ result' = Answer(<<force>>, ErrorObject, FALSE)
                      /\ UNCHANGED <<database, data_cache>>
                 ELSE \E o \in JsonDatabase_get_glosser_info(database) :
                        /\ database' = o.db
                        /\ data_cache' = cache_data(data_cache, key, o.value, clock)
                        /\ result' = Answer(<<force>>, o.value, FALSE)
            ELSE /\ result' = Answer(<<force>>, c.data[1], TRUE)
                 /\ UNCHANGED <<database, data_cache>>
    /\ observed' = database
    /\ UNCHANGED <<ready, status, glosser, gresult, trained, reads, bia, bresult, clock,
                   pc, locals>>

\* a second passes between two requests
Tick ==
    /\ result.op = "none"
    /\ clock < MaxClock
    /\ clock' = clock + 1
    /\ UNCHANGED <<database, ready, status, result, glosser, gresult, trained, reads,
                   bia, bresult, data_cache, pc, locals, observed>>

NextCache == BeginPrepare \/ PrepareStep \/ RouteGetGlosserInfo \/ Respond \/ Tick

SpecCache == Init /\ [][NextCache]_vars

----------------------------------------------------------------------------
(* A stand-alone ImprovedStatisticalGlosser (create_and_train_glosser), one *)
(* call at a time                                                           *)

MaxTrainCalls == 2      \* calls of train on the one glosser
MaxReads == 1           \* read operations on the one glosser
MaxGlossTopN == 2       \* largest top_n asked of a prediction

Repeat(x, n) == AsSeq([i \in 1..n |-> x])

\* "the" and "le" are in half of the ten sentences: stop words; the other words
\* are counted once, which is not more than 10% of ten
CorpusA ==
    [ source |-> << <<"The", "cat">>, <<"the", "dog">> >> \o Repeat(<<"the">>, 3),
      target |-> << <<"le", "chat">>, <<"le", "chien">> >> \o Repeat(<<"le">>, 3) ]

CorpusB ==
    [ source |-> << <<"the", "cat", "sat">> >> \o Repeat(<<"the">>, 4),
      target |-> << <<"le", "chat", "assis">> >> \o Repeat(<<"le">>, 4) ]

\* 75 words in all ten sentences take the 75 places of the stop-word set:
\* "cat", in all five source sentences, is left out of it
Fillers == AsSeq([i \in 1..MaxStopWords |-> ToString(i)])
CorpusCap ==
    [ source |-> Repeat(<<"cat">> \o Fillers, 5),
      target |-> << <<"chat">> \o Fillers >> \o Repeat(Fillers, 4) ]

\* Scenario A of the specification: one pair of sentences
ScenarioPair ==
    << <<"the", "cat", "is", "on", "the", "table">>,
       <<"le", "chat", "est", "sur", "la", "table">> >>
CorpusScenario == [source |-> <<ScenarioPair[1]>>, target |-> <<ScenarioPair[2]>>]

\* "dog" comes twice in one of the twelve sentences and in no other
CorpusRepeat ==
    [ source |-> << <<"dog", "dog", "cat">> >> \o Repeat(<<"the">>, 5),
      target |-> << <<"chien", "chat">> >> \o Repeat(<<"le">>, 5) ]

CorpusOf(c) ==
    CASE c = "A" -> CorpusA [] c = "B" -> CorpusB [] c = "Scenario" -> CorpusScenario
      [] c = "Repeat" -> CorpusRepeat
      [] OTHER -> CorpusCap
Corpora == {"A", "B", "Cap", "Scenario", "Repeat"}

\* dicts given to add_known_glosses; {"the": ["le"]} has a stop word of corpora
\* A and B as its head word, {"cat": ["le", "chat"]} one as its first gloss
KnownGlossChoices ==
    { <<>>,
      << <<"cat", <<"chat">>>> >>,
      << <<"the", <<"le">>>>, <<"dog", <<>>>> >>,
      << <<"cat", <<"le", "chat">>>> >> }

SourceWords == {"cat", "dog", "the"}
TargetWords == {"chat", "le"}
ScoredPairs == {<<"cat", "chat">>, <<"cat", "chien">>, <<"dog", "chat">>}
\* <<source_pos, target_pos, source_len, target_len>>
Positions == {<<0, 0, 1, 1>>, <<0, 1, 2, 2>>, <<1, 1, 2, 3>>}
SentencePairs ==
    { << <<"The", "cat">>, <<"le", "chat">> >>,
      << <<"the", "cat", "sat">>, <<"le", "chat", "assis">> >>,
      ScenarioPair }
SourceSentences == { <<"the", "cat", "dog">> }
TargetSentences == { <<"le", "chat", "ours">> }

GIdle == gresult.op = "none"

DbUnchanged ==
    UNCHANGED <<database, ready, status, result, pc, locals, observed, bia, bresult, data_cache, clock>>

Train ==
    /\ GIdle
    /\ Len(trained) < MaxTrainCalls
    /\ \E c \in Corpora :
        /\ glosser' \in train(glosser, CorpusOf(c).source, CorpusOf(c).target)
        /\ trained' = Append(trained, c)
    /\ UNCHANGED <<gresult, reads>>
    /\ DbUnchanged

AddKnownGlosses ==
    /\ GIdle
    /\ \E known_glosses \in KnownGlossChoices :
        glosser' = add_known_glosses(glosser, known_glosses)
    /\ UNCHANGED <<gresult, trained, reads>>
    /\ DbUnchanged

\* a read operation: its answer, and what it leaves in the glosser
Read(op, args, r) ==
    /\ glosser' = r.g
    /\ gresult' = [op |-> op, args |-> args, raised |-> r.raised, value |-> r.value]

CanRead ==
    /\ GIdle
    /\ reads < MaxReads
    /\ reads' = reads + 1
    /\ UNCHANGED trained
    /\ DbUnchanged

CalculateScore ==
    /\ CanRead
    /\ \E p \in ScoredPairs, pos \in Positions :
        \E r \in {calculate_score(glosser, p[1], p[2], pos[1], pos[2], pos[3], pos[4])} :
            Read("calculate_score", <<p[1], p[2], pos>>, r)

Gloss ==
    /\ CanRead
    /\ \E sp \in SentencePairs :
        \E r \in {gloss(glosser, sp[1], sp[2])} :
            Read("gloss", sp, r)

PredictWordGlosses ==
    /\ CanRead
    /\ \E is_source \in BOOLEAN, top_n \in 1..MaxGlossTopN :
        \E word \in (IF is_source THEN SourceWords ELSE TargetWords) :
            \E r \in {predict_word_glosses(glosser, word, is_source, top_n)} :
                Read("predict_word_glosses", <<word, is_source, top_n>>, r)

PredictSentenceGlosses ==
    /\ CanRead
    /\ \E is_source \in BOOLEAN, top_n \in 1..MaxGlossTopN :
        \E sentence \in (IF is_source THEN SourceSentences ELSE TargetSentences) :
            \E r \in {predict_sentence_glosses(glosser, sentence, is_source, top_n)} :
                Read("predict_sentence_glosses", <<sentence, is_source, top_n>>, r)

GenerateWoodenTranslation ==
    /\ CanRead
    /\ \E is_source \in BOOLEAN :
        \E sentence \in (IF is_source THEN SourceSentences ELSE TargetSentences) :
            \E r \in {generate_wooden_translation(glosser, sentence, is_source)} :
                Read("generate_wooden_translation", <<sentence, is_source>>, r)

GetCountForWord ==
    /\ CanRead
    /\ \E is_source \in BOOLEAN, word \in {"cat", "chat"} :
        \E r \in {get_count_for_word(glosser, word, is_source)} :
            Read("get_count_for_word", <<word, is_source>>, r)

\* the caller takes the answer
GRespond ==
    /\ ~GIdle
    /\ gresult' = NoGResult
    /\ UNCHANGED <<glosser, trained, reads>>
    /\ DbUnchanged

NextGlosser ==
    \/ Train \/ AddKnownGlosses
    \/ CalculateScore \/ Gloss \/ PredictWordGlosses \/ PredictSentenceGlosses
    \/ GenerateWoodenTranslation \/ GetCountForWord
    \/ GRespond

SpecGlosser == Init /\ [][NextGlosser]_vars

----------------------------------------------------------------------------
(* The BidirectionalInverseAttention object of the router (LSPWrapper.     *)
(* initialize builds it from complete_draft.txt) and its queries, one call *)
(* at a time                                                               *)

MaxQueryLen == 3        \* tokens of a query given to predict
MaxNumWords == 2        \* largest num_words asked of predict_next
MaxOptions == 3         \* largest options asked of get_possible_next

\* Scenario B of the specification
ScenarioCorpus ==
    << "the", "cat", "sat", "on", "the", "mat.",
       "the", "dog", "sat", "on", "the", "rug." >>

\* three sentences holding "the", "cat" and "mat" or "sat"
ThreeSentences ==
    << "the", "cat", "sat.",
       "the", "cat", "is", "on", "the", "mat.",
       "the", "cat", "sat", "on", "the", "mat." >>

BiaCorpora == {ScenarioCorpus, ThreeSentences}

QueryWords == {"cat", "mat", "the", MASK}
BiaQueries == SeqsUpTo(QueryWords, MaxQueryLen)
BiaTexts == SeqsUpTo({"cat", "the", "zebra"}, 2) \cup {<<"the", "cat", "sat", "on", "the">>}
Bounds == {"", "at", "dog", "zebra"}
TopNs == {1, DefaultTopN}

BIdle == bresult.op = "none"

BiaFrame ==
    UNCHANGED <<database, ready, status, result, glosser, gresult, trained, reads,
                pc, locals, observed, data_cache, clock>>

\* LSPWrapper.initialize, lines 243-251
BiaInitialize ==
    /\ bia.isNone
    /\ \E corpus \in BiaCorpora : bia' = NewBia(corpus)
    /\ UNCHANGED bresult
    /\ BiaFrame

\* a query of the predictor and its answer
BiaAnswer(op, args, r) ==
    /\ bresult' = [op |-> op, args |-> args, raised |-> r.raised, value |-> r.value]
    /\ UNCHANGED bia
    /\ BiaFrame

BiaSearch ==
    /\ ~bia.isNone /\ BIdle
    /\ \E query \in SeqsUpTo(QueryWords, 1), bound \in Bounds :
        BiaAnswer("search", <<query, bound>>, search_bia(bia, query, bound))

BiaPredict ==
    /\ ~bia.isNone /\ BIdle
    /\ \E query \in BiaQueries, top_n \in TopNs, bound \in Bounds :
        \E r \in predict(bia, query, top_n, bound) :
            BiaAnswer("predict", <<query, top_n, bound>>, r)

BiaPredictNext ==
    /\ ~bia.isNone /\ BIdle
    /\ \E _text \in BiaTexts, num_words \in 1..MaxNumWords :
        \E r \in predict_next(bia, _text, num_words) :
            BiaAnswer("predict_next", <<_text, num_words>>, r)

BiaGetPossibleNext ==
    /\ ~bia.isNone /\ BIdle
    /\ \E _text \in BiaTexts, options \in 1..MaxOptions :
        \E r \in get_possible_next(bia, _text, options) :
            BiaAnswer("get_possible_next", <<_text, options>>, r)

\* the caller takes the answer
BiaRespond ==
    /\ ~BIdle
    /\ bresult' = NoBResult
    /\ UNCHANGED bia
    /\ BiaFrame

NextBia ==
    \/ BiaInitialize
    \/ BiaSearch \/ BiaPredict \/ BiaPredictNext \/ BiaGetPossibleNext
    \/ BiaRespond

SpecBia == Init /\ [][NextBia]_vars


----------------------------------------------------------------------------
(* Properties of the built JsonDatabase (specification Spec)                *)

\* the text of the last record appended to the lists for ref
LastText(references, texts, ref) ==
    texts[CHOOSE i \in 1..Len(references) :
              /\ references[i] = ref
              /\ \A j \in (i + 1)..Len(references) : references[j] # ref]

\* C1: for every reference in the table and each side, get_text(reference, side)
\* returns the text of the last ingested record of that reference and side, and
\* the table has one slot for each ingested reference.
C1_GetTextReturnsLastIngested ==
    (result.op = "get_text") =>
        LET ref == result.args[1]
            side == result.args[2]
            references == IF side = "target" THEN database.target_references
                          ELSE database.source_references
            texts == IF side = "target" THEN database.target_texts
                     ELSE database.source_texts
        IN  /\ (ref \in Range(references)) =>
                  result.value = LastText(references, texts, ref)
            /\ DOMAIN database.dictionary =
                  Range(database.target_references) \cup Range(database.source_references)

\* C2: for all 0 <= n1 <= n2 the first n1 results of search(q, collection, n2)
\* are the whole result of search(q, collection, n1), and the answer of a call
\* is the one the unchanged index determines.
C2_SearchPrefix ==
    (result.op = "search") =>
        LET q == result.args[1]
            collection == result.args[2]
            n2 == result.args[3]
        IN  /\ result.value = search(database, q, collection, n2)
            /\ \A n1 \in 0..n2 :
                  Take(result.value.results, n1)
                      = search(database, q, collection, n1).results

\* C3: get_lad returns 0 whenever the target search or the source search has no
\* hit, and an integer of 0..100 in every other case.
C3_LadZeroWithoutHits ==
    (result.op = "get_lad") =>
        LET query == result.args[1]
            reference == result.args[2]
            target_hits == search(database, query, "target", LadTopN).results
            source_hits == search(database, get_text(database, reference, "source"),
                                  "source", LadTopN).results
        IN  /\ result.value \in 0..100
            /\ (target_hits = <<>> \/ source_hits = <<>>) => result.value = 0

----------------------------------------------------------------------------
(* Properties of the glosser (specification SpecGlosser)                    *)

\* the co-occurrence model of a glosser
ModelOf(g) ==
    [ co_occurrences |-> g.co_occurrences,
      source_counts |-> g.source_counts, target_counts |-> g.target_counts,
      source_doc_freq |-> g.source_doc_freq, target_doc_freq |-> g.target_doc_freq,
      total_docs |-> g.total_docs, stop_words |-> g.stop_words ]

\* JsonDatabase.get_glosser_counts, for the glosser g
get_glosser_counts(g) ==
    [ source_vocab_size |-> Len(g.source_counts),
      target_vocab_size |-> Len(g.target_counts),
      co_occurrences |-> Cardinality(DOMAIN g.co_occurrences),
      known_glosses |-> Len(g.known_glosses) ]

\* C4: after two calls of train with the same sentence lists, and nothing else
\* than add_known_glosses, the model is one a single call on a new glosser leaves.
C4_TrainTwiceEqualsOnce ==
    \A c \in Corpora :
        (trained = <<c, c>> /\ reads = 0) =>
            ModelOf(glosser) \in
                {ModelOf(g) : g \in train(NewGlosser, CorpusOf(c).source, CorpusOf(c).target)}

AskedSourceWord ==
    /\ gresult.op = "predict_word_glosses"
    /\ gresult.args[2]
    /\ gresult.args[3] = 1

\* C5 as stated: for every source token with an entry in the known glosses,
\* predict_word_glosses(token, True, 1) is the one pair (first known gloss, 1.0).
C5_KnownGlossAlways ==
    (AskedSourceWord /\ DHas(glosser.known_glosses, gresult.args[1])) =>
        /\ ~gresult.raised
        /\ DGet(glosser.known_glosses, gresult.args[1]) # <<>>
        /\ gresult.value =
              << <<DGet(glosser.known_glosses, gresult.args[1])[1], KnownScore>> >>

\* C5: for every source token that is not a stop word and has a non-empty list
\* of known glosses, predict_word_glosses(token, True, 1) is the one pair
\* (first known gloss, 1.0), whatever was trained; for a stop word and for an
\* empty list it is the empty list.
C5_KnownGlossUnlessStopWord ==
    (AskedSourceWord /\ DHas(glosser.known_glosses, gresult.args[1])) =>
        LET token == gresult.args[1]
            known == DGet(glosser.known_glosses, token)
        IN  /\ ~gresult.raised
            /\ gresult.value =
                  IF token \in glosser.stop_words \/ known = <<>> THEN <<>>
                  ELSE << <<known[1], KnownScore>> >>

\* a trained glosser answered with the known gloss of a word that is no stop word
C5_Witness ==
    /\ AskedSourceWord
    /\ trained # <<>>
    /\ glosser.stop_words # {}
    /\ DHas(glosser.known_glosses, gresult.args[1])
    /\ gresult.args[1] \notin glosser.stop_words
    /\ gresult.value = << <<"chat", KnownScore>> >>

\* the words glossed (keys) and the words proposed (values) of an answer
ResultWords ==
    LET v == gresult.value
        Firsts(pairs) == {pairs[i][1] : i \in 1..Len(pairs)}
    IN  CASE gresult.op = "gloss" ->
                {v[i][1] : i \in 1..Len(v)}
                    \cup UNION {Firsts(v[i][2]) : i \in 1..Len(v)}
          [] gresult.op = "predict_word_glosses" ->
                Firsts(v) \cup (IF v = <<>> THEN {} ELSE {gresult.args[1]})
          [] gresult.op = "predict_sentence_glosses" ->
                UNION {Range(v[i]) : i \in 1..Len(v)}
          [] gresult.op = "generate_wooden_translation" -> Range(v)
          [] OTHER -> {}

\* C6: no stop word is a key or a value of an answer of gloss,
\* predict_word_glosses, predict_sentence_glosses or generate_wooden_translation.
C6_NoStopWordInResult ==
    (gresult.op # "none" /\ ~gresult.raised) => ResultWords \cap glosser.stop_words = {}

\* C7: after training calculate_score does not raise and is never negative, and
\* is 0 for a pair that never co-occurred.
C7_ScoreNeverNegative ==
    (gresult.op = "calculate_score" /\ trained # <<>>) =>
        /\ ~gresult.raised
        /\ gresult.value >= 0
        /\ Get(glosser.co_occurrences, <<gresult.args[1], gresult.args[2]>>, 0) = 0
              => gresult.value = 0

\* C10: after train has returned, a read operation leaves the co-occurrence
\* model and the values of get_glosser_counts as they were.
C10_ReadsLeaveModel ==
    [][(reads' = reads + 1 /\ trained # <<>>) =>
          /\ ModelOf(glosser') = ModelOf(glosser)
          /\ get_glosser_counts(glosser') = get_glosser_counts(glosser)]_vars

\* the candidates gloss lists for the source token, best first
CandidatesFor(value, s_token) ==
    LET i == CHOOSE k \in 1..Len(value) : value[k][1] = s_token
    IN  DKeys(value[i][2])

HasTopCandidate(value, s_token, t_token) ==
    /\ \E k \in 1..Len(value) : value[k][1] = s_token
    /\ CandidatesFor(value, s_token) # <<>>
    /\ CandidatesFor(value, s_token)[1] = t_token

\* C13: after training a fresh glosser on the one pair ("the cat is on the
\* table", "le chat est sur la table"), gloss on that pair has an entry for
\* "cat" with "chat" ranked first and one for "table" with "table" ranked first.
C13_ScenarioAGlosses ==
    (gresult.op = "gloss" /\ trained = <<"Scenario">> /\ gresult.args = ScenarioPair) =>
        /\ ~gresult.raised
        /\ HasTopCandidate(gresult.value, "cat", "chat")
        /\ HasTopCandidate(gresult.value, "table", "table")

----------------------------------------------------------------------------
(* Properties of prepare (specifications SpecBuild and SpecConcurrent)      *)

Recorded(msg) == \E i \in 1..Len(status.errors) : status.errors[i] = msg

\* C8: whatever construction steps fail, create_database does not raise and
\* returns a status with a message for each failed step, and the target index
\* is built from the target texts that have a token.
C8_CreateDatabaseNeverRaises ==
    (~database.isNone) =>
        LET env == locals.env
        IN  /\ ~status.raised
            /\ status.returned
            /\ (env.bible = "none") => Recorded("No .bible files found")
            /\ (env.bible = "error") => Recorded("Error extracting from bible file")
            /\ (env.codex = "error") => Recorded("Error extracting codex chunks")
            /\ (env.dictionary = "missing") => Recorded("Project dictionary file not found")
            /\ (env.dictionary = "malformed") =>
                  Recorded("Error extracting project dictionary")
            /\ (env.draft = "error") => Recorded("Error saving complete draft")
            /\ (\E i \in 1..Len(env.resource_files) : ~env.resource_files[i].readable) =>
                  Recorded("Error loading resources")
            /\ (database.target_texts # <<>> /\ ~FitFails(database.target_texts)) =>
                  ~database.tfidf_matrix_target.isNone

\* the databases a whole create_database leaves
CompleteDatabases ==
    UNION {{o.db : o \in create_database(NewJsonDatabase, env)} : env \in ConcurrentEnvs}

\* C9: the database a connection finds is None (before any build) or a database
\* a whole create_database has left, never one that is partly populated.
C9_ReadersSeeCompleteDatabase ==
    observed.isNone \/ observed \in CompleteDatabases

----------------------------------------------------------------------------
(* Properties of the predictor (specification SpecBia)                     *)

\* C11: the ranked list predict returns (the candidates, their vote counts
\* and their order, candidates with equal counts included) is the same for
\* every order in which the workers complete.
C11_PredictOrderIndependent ==
    (bresult.op = "predict") =>
        \A o \in predict(bia, bresult.args[1], bresult.args[2], bresult.args[3]) :
            o.raised = bresult.raised /\ o.value = bresult.value

ScenarioText == <<"the", "cat", "sat", "on", "the">>

\* C14: for the predictor built over "the cat sat on the mat. the dog sat on
\* the rug.", get_possible_next("the cat sat on the", 3) returns a list that
\* contains "mat".
C14_ScenarioBContainsMat ==
    (/\ bresult.op = "get_possible_next"
     /\ bia.corpus = ScenarioCorpus
     /\ bresult.args = <<ScenarioText, 3>>) =>
        ~bresult.raised /\ "mat" \in Range(bresult.value)

\* C17: predict on a query without placeholder reports a malformed query and
\* does not fail on an index into an empty list; the predictor is unchanged.
C17_NoPlaceholderIsReported ==
    [][(bresult'.op = "predict" /\ MASK \notin Range(bresult'.args[1])) =>
          ~bresult'.raised /\ bia' = bia]_vars

----------------------------------------------------------------------------
(* Properties of the gloss reads (specification SpecGlossReads)            *)

\* train has run on the glosser of the database
GlosserTrained(db) == ~db.glosser.isNone /\ db.glosser.obj.total_docs > 0

\* C12: a gloss read through JsonDatabase made before any successful train
\* (also after create_database ran with no source/target pair) returns an
\* explicit "not trained" outcome, which differs from what a trained glosser
\* returns when it finds no gloss.
C12_UntrainedReadIsExplicit ==
    (result.op = "predict_word_glosses" /\ ~GlosserTrained(database)) =>
        /\ result.value.error # ""
        /\ result.value # [error |-> "", glosses |-> <<>>]

----------------------------------------------------------------------------
(* The order of the search results (specification Spec)                    *)

\* the rows by decreasing similarity, equal rows in ingestion order, the
\* first top_n of them
EarliestFirst(sims, top_n) ==
    Take(StableSortDesc(AsSeq([i \in 1..Len(sims) |-> i]), LAMBDA i : sims[i]), top_n)

\* C18: on a fitted collection the records search returns are in
\* non-increasing order of cosine similarity to the query, records of equal
\* similarity in ingestion order, so that the cut to top_n keeps the
\* earliest-ingested of the tied records.
C18_TiesInIngestionOrder ==
    (/\ result.op = "search"
     /\ result.args[2] \in {"source", "target"}
     /\ result.args[3] >= 1
     /\ ~(IF result.args[2] = "source" THEN database.tfidf_matrix_source
          ELSE database.tfidf_matrix_target).isNone) =>
        LET source == result.args[2] = "source"
            corpus == IF source THEN database.tfidf_vectorizer_source.corpus
                      ELSE database.tfidf_vectorizer_target.corpus
            refs == IF source THEN database.source_references ELSE database.target_references
            texts == IF source THEN database.source_texts ELSE database.target_texts
            uris == IF source THEN database.source_uris ELSE database.target_uris
            sims == AsSeq([i \in 1..Len(corpus) |->
                             CosineSimilarity(corpus, result.args[1], i)])
            order == EarliestFirst(sims, result.args[3])
        IN  result.value.results =
                AsSeq([k \in 1..Len(order) |->
                         Hit(refs[order[k]], texts[order[k]], uris[order[k]])])

----------------------------------------------------------------------------
(* The sentence pairs the glosser is trained on (specification Spec)       *)

\* the pairs initialize_glosser hands to train, each with the references its
\* two texts were ingested under: source_texts[:num_pairs] against
\* target_texts[:num_pairs], position by position
TrainingPairs(db) ==
    LET num_pairs == Min(Len(db.source_texts), Len(db.target_texts))
    IN  AsSeq([i \in 1..num_pairs |->
                 [ source_ref |-> db.source_references[i], source |-> db.source_texts[i],
                   target_ref |-> db.target_references[i], target |-> db.target_texts[i] ]])

\* C19: every (source sentence, target sentence) pair initialize_glosser
\* trains the glosser on is the source text and the target text of one and
\* the same passage reference.
C19_PairsShareReference ==
    (/\ ~database.isNone
     /\ ~database.glosser.isNone
     /\ database.glosser.obj.total_docs > 0) =>
        /\ database.glosser.obj.total_docs = Len(TrainingPairs(database))
        /\ \A i \in 1..Len(TrainingPairs(database)) :
              TrainingPairs(database)[i].source_ref = TrainingPairs(database)[i].target_ref

----------------------------------------------------------------------------
(* Properties of the target-only mode (specification SpecTargetOnly)       *)

\* a search with n >= 1 has been answered on a database prepared from no
\* source record and some ingested target record
TargetOnlySearch(text_type) ==
    /\ result.op = "search"
    /\ result.args[2] = text_type
    /\ result.args[3] >= 1
    /\ locals.env.source_files = <<>>
    /\ database.source_texts = <<>>
    /\ database.target_texts # <<>>

\* the hits are ingested target records with their texts, no record twice
RealTargetRecords(hits) ==
    \E f \in [1..Len(hits) -> 1..Len(database.target_texts)] :
        /\ \A j, k \in 1..Len(hits) : j # k => f[j] # f[k]
        /\ \A k \in 1..Len(hits) :
              hits[k] = Hit(database.target_references[f[k]], database.target_texts[f[k]],
                            database.target_uris[f[k]])

\* C15 as stated: with no source record and some target records, a source
\* search returns an empty or degraded list and no error, and a target search
\* returns min(n, number of target records) real target records with their
\* texts, for every query and every n >= 1.
C15_TargetSearchAlwaysReal ==
    /\ TargetOnlySearch("source") =>
          /\ ~result.value.error
          /\ \A k \in 1..Len(result.value.results) : result.value.results[k].text = <<>>
    /\ TargetOnlySearch("target") =>
          /\ ~result.value.error
          /\ Len(result.value.results) = Min(result.args[3], Len(database.target_texts))
          /\ RealTargetRecords(result.value.results)

\* C15, amended: the target search returns min(n, number of ingested target
\* texts) entries; they are real records with their texts when some target
\* text has a token (the index was fitted), and the first entries in
\* ingestion order with empty texts when none has.
C15_TargetSearchRealWhenFitted ==
    /\ TargetOnlySearch("source") =>
          ~result.value.error /\ result.value.results = <<>>
    /\ TargetOnlySearch("target") =>
          /\ ~result.value.error
          /\ Len(result.value.results) = Min(result.args[3], Len(database.target_texts))
          /\ IF FitFails(database.target_texts)
             THEN \A k \in 1..Len(result.value.results) :
                      result.value.results[k] =
                          Hit(database.target_references[k], <<>>, database.target_uris[k])
             ELSE RealTargetRecords(result.value.results)

C15_Witness ==
    /\ TargetOnlySearch("target")
    /\ Len(database.target_texts) = 2
    /\ ~FitFails(database.target_texts)
    /\ Len(result.value.results) = 2

----------------------------------------------------------------------------
(* Properties of get_text (specification SpecGetText)                      *)

\* a record of the side has been ingested for the reference
HasRecord(db, ref, side) ==
    \/ side = "source" /\ ref \in Range(db.source_references)
    \/ side = "target" /\ ref \in Range(db.target_references)

----------------------------------------------------------------------------
(* Properties of repeated builds (specification SpecRebuild)               *)

\* the reference, text and URI lists of each collection have one length
ListsAligned(db) ==
    /\ Len(db.source_references) = Len(db.source_texts)
    /\ Len(db.source_texts) = Len(db.source_uris)
    /\ Len(db.target_references) = Len(db.target_texts)
    /\ Len(db.target_texts) = Len(db.target_uris)
    /\ Len(db.resource_texts) = Len(db.resource_uris)

\* a matrix that is there has one row per entry of its collection
MatrixMatchesLists(db) ==
    /\ ~db.tfidf_matrix_source.isNone =>
          Len(db.tfidf_matrix_source.rows) = Len(db.source_texts)
    /\ ~db.tfidf_matrix_target.isNone =>
          Len(db.tfidf_matrix_target.rows) = Len(db.target_texts)
    /\ ~db.tfidf_matrix_resources.isNone =>
          Len(db.tfidf_matrix_resources.rows) = Len(db.resource_texts)

\* the source and target lists of db are those of a first build of new
SameCollections(db, new) ==
    /\ db.source_references = new.source_references
    /\ db.source_texts = new.source_texts
    /\ db.source_uris = new.source_uris
    /\ db.target_references = new.target_references
    /\ db.target_texts = new.target_texts
    /\ db.target_uris = new.target_uris

\* a create_database leaves the lists a first build of the same workspace leaves
RebuildReplaces ==
    CreateDatabase =>
        \E o \in create_database(NewJsonDatabase, locals'.env) :
            SameCollections(database', o.db)

\* C20: after any sequence of create_database and load_resources calls on
\* one JsonDatabase, failing fits included, the lists of each collection
\* have equal length, a matrix that is there has as many rows as its list
\* has entries, and a rebuild replaces what the collection held before.
C20_RebuildKeepsCollectionsConsistent ==
    /\ [](~database.isNone => ListsAligned(database) /\ MatrixMatchesLists(database))
    /\ [][RebuildReplaces]_vars

----------------------------------------------------------------------------
(* The answer of gloss (specification SpecGlosser)                         *)

\* the known glosses of the token that occur among the target tokens
KnownAmong(g, s_token, target_tokens) ==
    {k \in Range(DGet(g.known_glosses, s_token)) : k \in Range(target_tokens)}

\* the score calculate_score gives the i-th source token against the j-th
\* target token (both from 1)
ScoreAt(g, source_tokens, target_tokens, i, j) ==
    calculate_score(g, source_tokens[i], target_tokens[j], i - 1, j - 1,
                    Len(source_tokens), Len(target_tokens)).value

NonIncreasing(pairs) ==
    \A k \in 1..(Len(pairs) - 1) : pairs[k][2] >= pairs[k + 1][2]

\* C21: gloss returns one entry per source token that is no stop word, in
\* sentence order; when a known gloss of the token occurs among the target
\* tokens the candidates are exactly those known glosses with score 1.0,
\* otherwise exactly the target tokens calculate_score scores above 0, in
\* non-increasing order of score.
C21_GlossEntries ==
    (gresult.op = "gloss") =>
        LET source_tokens == tokenize(glosser, gresult.args[1])
            target_tokens == tokenize(glosser, gresult.args[2])
            v == gresult.value
        IN  /\ ~gresult.raised
            /\ Len(v) = Len(source_tokens)
            /\ \A i \in 1..Len(v) :
                LET known == IF DHas(glosser.known_glosses, source_tokens[i])
                             THEN KnownAmong(glosser, source_tokens[i], target_tokens)
                             ELSE {}
                    positive == {j \in 1..Len(target_tokens) :
                                   ScoreAt(glosser, source_tokens, target_tokens, i, j) > 0}
                IN  /\ v[i][1] = source_tokens[i]
                    /\ IF known # {}
                       THEN /\ Range(v[i][2]) = {<<k, KnownScore>> : k \in known}
                            /\ Len(v[i][2]) = Cardinality(known)
                       ELSE /\ Range(v[i][2]) =
                                 {<<target_tokens[j],
                                    ScoreAt(glosser, source_tokens, target_tokens, i, j)>> :
                                      j \in positive}
                            /\ Len(v[i][2]) = Cardinality(positive)
                            /\ NonIncreasing(v[i][2])

\* a trained glosser dropped a stop word of the sentence and put the second
\* target token first for a source token
C21_Witness ==
    /\ gresult.op = "gloss"
    /\ ~gresult.raised
    /\ Len(gresult.value) < Len(gresult.args[1])
    /\ \E i \in 1..Len(gresult.value) :
        LET c == gresult.value[i][2]
        IN  /\ Len(c) = 2
            /\ c[1][2] > c[2][2]
            /\ c[1][1] = tokenize(glosser, gresult.args[2])[2]

----------------------------------------------------------------------------
(* The stop words train leaves (specification SpecGlosser)                 *)

\* the sentences the last call of train was given, source and target together
LastTrainingSentences ==
    CorpusOf(trained[Len(trained)]).source \o CorpusOf(trained[Len(trained)]).target

\* the number of the sentences the token occurs in
SentenceFrequency(sentences, w) ==
    Cardinality({i \in 1..Len(sentences) : w \in Range(tokenize_raw(sentences[i]))})

\* C22: after train every stop word occurs in more than 10% of the training
\* sentences (source and target together, each sentence counted once), and
\* there are at most 75 stop words.
C22_StopWordsFrequent ==
    (trained # <<>>) =>
        /\ Cardinality(glosser.stop_words) <= MaxStopWords
        /\ \A w \in glosser.stop_words :
              10 * SentenceFrequency(LastTrainingSentences, w) > Len(LastTrainingSentences)

----------------------------------------------------------------------------
(* train and add_known_glosses in any order (specification SpecGlosser)    *)

\* a step of add_known_glosses: the only one that neither trains nor reads
\* nor hands an answer over
AddStep ==
    /\ GIdle
    /\ gresult'.op = "none"
    /\ trained' = trained
    /\ reads' = reads

\* C23: the table of known glosses is the mapping of the most recent
\* add_known_glosses call (a call replaces the table, and nothing else
\* changes it: train leaves it as it is), and add_known_glosses leaves the
\* co-occurrence model and the stop words as they are.
C23_KnownGlossesReplaced ==
    [][/\ AddStep => /\ glosser'.known_glosses \in KnownGlossChoices
                     /\ ModelOf(glosser') = ModelOf(glosser)
       /\ (trained' # trained) => glosser'.known_glosses = glosser.known_glosses
       /\ (glosser'.known_glosses # glosser.known_glosses) => AddStep]_vars

\* train was called twice and the table is the one with two glosses for "cat"
C23_Witness ==
    /\ Len(trained) = 2
    /\ glosser.stop_words # {}
    /\ glosser.known_glosses = << <<"cat", <<"le", "chat">>>> >>

----------------------------------------------------------------------------
(* The sentences search returns (specification SpecBia)                    *)

\* the 0-based indices of the sentences that contain the bound
BoundIndices(b, bound) ==
    {i \in 0..(Len(b.sentences) - 1) :
        \E k \in 1..Len(b.sentences[i + 1]) : IsSubstring(bound, b.sentences[i + 1][k])}

\* the sentences at the indices of S, in corpus order
SentencesAt(b, S) ==
    AsSeq([k \in 1..Cardinality(S) |-> b.sentences[Ascending(S)[k] + 1]])

\* C24: search without a bound returns every sentence that shares a
\* vocabulary word with the query, the first and the last sentence included;
\* with a bound it returns the matching sentences from the first to the last
\* sentence that contains the bound, and the empty list, without raising,
\* when no sentence contains it.
C24_SearchReturnsEveryMatch ==
    (bresult.op = "search") =>
        LET query == bresult.args[1]
            bound == bresult.args[2]
            matching == RelevantIndices(bia, query)
            within == BoundIndices(bia, bound)
        IN  /\ ~bresult.raised
            /\ bresult.value =
                 IF bound = "" THEN SentencesAt(bia, matching)
                 ELSE IF within = {} THEN <<>>
                 ELSE SentencesAt(bia,
                        {i \in matching :
                            /\ \E lo \in within : lo <= i
                            /\ \E hi \in within : i <= hi})

----------------------------------------------------------------------------
(* The lookup tasks of predict (specification SpecBia)                     *)

\* the words predict submits a predict_from call for
SubmittedWords(b, query, top_n) ==
    LET tasks == SubmittedTasks(b, query, IndexOf(query, MASK), top_n)
    IN  {tasks[i][1] : i \in 1..Len(tasks)}

\* the query words one position before or after the placeholder
AdjacentWords(query) ==
    LET t == IndexOf(query, MASK) + 1
    IN  {query[k] : k \in {t - 1, t + 1} \cap (1..Len(query))}

\* C25: predict submits a lookup task for the top_n query words of the
\* vocabulary with the highest IDF and for the words one position before or
\* after the placeholder, and for no other word.
C25_TasksForRareAndAdjacent ==
    (bresult.op = "predict" /\ MASK \in Range(bresult.args[1])) =>
        SubmittedWords(bia, bresult.args[1], bresult.args[2]) =
            Range(rare_words(bia, bresult.args[1], bresult.args[2]))
                \cup AdjacentWords(bresult.args[1])

----------------------------------------------------------------------------
(* The vote tables of predict (specification SpecBia)                      *)

\* the positions (from 1) of the query whose word a task is submitted for,
\* in the order of submission
SubmittedPositions(b, query, top_n) ==
    Ascending({p \in 1..Len(query) : query[p] \in SubmittedWords(b, query, top_n)})

\* the votes of the claim for the word at position p of the query, the
\* placeholder at position t: for each occurrence of the word at index k of
\* a retrieved sentence, the sentence word at index k + (t - p)
VotesAt(sentences, word, p, t) ==
    LET hits == UNION {{<<i, k>> : k \in {j \in 1..Len(sentences[i]) :
                                             /\ sentences[i][j] = word
                                             /\ j + (t - p) \in 1..Len(sentences[i])}} :
                       i \in 1..Len(sentences)}
        voted(ik) == sentences[ik[1]][ik[2] + (t - p)]
    IN  {<<w, Cardinality({ik \in hits : voted(ik) = w})>> : w \in {voted(ik) : ik \in hits}}

\* C26: the vote table of the context word at position p of the query holds,
\* for every occurrence of the word at index k of every retrieved sentence,
\* one vote for the sentence word at index k + (t - p) when that index is
\* inside the sentence, and nothing else; p is the word's own position also
\* when the word comes several times in the query.
C26_VotesAtOffset ==
    (bresult.op = "predict" /\ MASK \in Range(bresult.args[1]) /\ ~bresult.raised) =>
        LET query == bresult.args[1]
            t == IndexOf(query, MASK) + 1
            positions == SubmittedPositions(bia, query, bresult.args[2])
            counts == TaskCounts(bia, query, bresult.args[2], bresult.args[3])
        IN  /\ Len(counts) = Len(positions)
            /\ \A m \in 1..Len(positions) :
                 (query[positions[m]] # MASK) =>
                    Range(counts[m].value) =
                        VotesAt(search_bia(bia, <<query[positions[m]]>>, bresult.args[3]).value,
                                query[positions[m]], positions[m], t)

----------------------------------------------------------------------------
(* The combined scores of predict (specification SpecBia)                  *)

\* the context words of the query with a vote table that holds the candidate
ContributingWords(b, query, top_n, bound, candidate) ==
    LET positions == SubmittedPositions(b, query, top_n)
        counts == TaskCounts(b, query, top_n, bound)
    IN  {query[positions[m]] : m \in {n \in 1..Len(positions) :
                                        DHas(counts[n].value, candidate)}}

\* C27: the combined score of each candidate predict returns is the number
\* of distinct context words of the query whose vote table holds the
\* candidate (a context word that comes several times in the query counts
\* once), and the list is in non-increasing order of score.
C27_ScoreCountsDistinctWords ==
    (bresult.op = "predict" /\ MASK \in Range(bresult.args[1]) /\ ~bresult.raised) =>
        /\ NonIncreasing(bresult.value)
        /\ \A i \in 1..Len(bresult.value) :
              bresult.value[i][2] =
                  Cardinality(ContributingWords(bia, bresult.args[1], bresult.args[2],
                                                bresult.args[3], bresult.value[i][1]))

----------------------------------------------------------------------------
(* The candidates of get_possible_next (specification SpecBia)             *)

\* next_ stands right after last somewhere in the corpus, punctuation aside
ObservedAfter(b, last, next_) ==
    \E i \in 1..(Len(b.corpus) - 1) :
        /\ StripPunct(b.corpus[i]) = last
        /\ StripPunct(b.corpus[i + 1]) = next_

\* C28: every candidate get_possible_next returns has been observed in the
\* corpus right after the last word of the text; when the last word is not
\* in the corpus, or only as its final word, no candidate is returned.
C28_CandidatesObservedAfterLast ==
    (bresult.op = "get_possible_next" /\ ~bresult.raised) =>
        \A k \in 1..Len(bresult.value) :
            ObservedAfter(bia, bresult.args[1][Len(bresult.args[1])], bresult.value[k])

----------------------------------------------------------------------------
(* The verse_lad request (specification SpecVerseLad)                      *)

\* C29: a "verse_lad" request with args {query, vref} on a prepared router
\* is answered with {"score": s}, s the value of get_lad(query, vref), a
\* number in 0..100, and never with an error object.
C29_VerseLadReturnsScore ==
    (result.op = "verse_lad") =>
        /\ ~result.value.error
        /\ result.value.score =
              get_lad(database, result.args[1], result.args[2], DefaultSamples)
        /\ result.value.score \in 0..100

----------------------------------------------------------------------------
(* the response cache of route_to                                          *)

\* what get_glosser_info computes from the database a request finds
FreshInfos(db) ==
    IF db.isNone THEN {ErrorObject}
    ELSE { o.value : o \in JsonDatabase_get_glosser_info(db) }

\* the answer came from the cache while its entry was younger than
\* cache_expiration
ServedWhileYoung ==
    (result.op = "none" /\ result'.op = "get_glosser_info" /\ result'.cached)
        => \E key \in {CacheKey("get_glosser_info", result'.args[1])} :
             /\ key \in DOMAIN data_cache
             /\ clock - data_cache[key].timestamp < CacheExpiration

\* a request with force_refresh=true is answered with what the database of
\* the time of the request gives, and not from the cache
ForceRefreshIsFresh ==
    (result.op = "get_glosser_info" /\ result.args[1] = "true")
        => /\ ~result.cached
           /\ result.value \in FreshInfos(observed)

\* C30: route_to serves a cached response only while it is younger than
\* cache_expiration (5 seconds), and it answers every get_glosser_info
\* request with force_refresh=true with information freshly computed from
\* the database at the time of the request, never with a cached response,
\* whatever requests came before and whenever they came.
C30_CacheYoungAndForceRefreshFresh ==
    [][ServedWhileYoung]_vars /\ []ForceRefreshIsFresh

====
